---- MODULE Spec2Model ----
(***************************************************************************)
(* Model of the request-processing spine of the Activities API:            *)
(*   - app/core/exceptions.py   the error taxonomy (map_db_error and the   *)
(*                              three registered exception handlers)       *)
(*   - app/core/security.py     bearer-token authentication                *)
(*   - app/middleware/correlation.py  the correlation tracer               *)
(*   - app/services/*.py        the domain-service operations              *)
(*   - app/routes/*.py, app/main.py   the pipeline that composes them      *)
(*                                                                         *)
(* Five specifications:                                                    *)
(*   SpecMap  applies map_db_error to every error of a bounded input set   *)
(*            (and once more to its own result);                           *)
(*   Spec     runs requests, one after another, through the pipeline;      *)
(*   SpecAuth applies the authentication dependencies to a set of headers; *)
(*   SpecConc interleaves concurrent requests of one worker, which share   *)
(*            the connection pool;                                         *)
(*   SpecFn   applies the shaping and validating functions (result         *)
(*            collections, tag lists, the tag limit, route matching) to    *)
(*            bounded sets of arguments.                                   *)
(*                                                                         *)
(* Texts are TLA+ strings; substring tests are computed on them character  *)
(* by character, as Python's `in` does.                                    *)
(***************************************************************************)
EXTENDS Integers, Sequences, FiniteSets, TLC

\* ------------------------------------------------------------------ bounds

\* An error text is the concatenation of at most MaxFrags fragments.
MaxFrags == 2

\* Requests served by one run of the pipeline.
MaxRequests == 2

\* Rows a collaborator call returns, at most.
MaxRows == 2

\* Requests that one worker handles concurrently.
MaxTasks == 2

\* Connections of the pool (settings.DB_POOL_MAX_SIZE, scaled down).
PoolSize == 1

\* Rows of a collaborator result and elements of a tag list under SpecFn, at
\* most (beside the lists that are built to exceed the tag limit).
MaxList == 2

\* ---------------------------------------------------------------- constants

\* `if len(v) > 20` of validate_tags, and max_length=20 of the tags field.
MaxTags == 20

\* `tag.strip()[:100]`
TagMaxLen == 100

\* `limit = min(limit, 100)`
MaxTagLimit == 100

VARIABLES
    DEBUG,          \* settings.DEBUG of the process
    mPc,            \* SpecMap: "input", "mapped", "remapped"
    mErr,           \* SpecMap: the error handed to map_db_error
    mOut,           \* SpecMap: map_db_error(mErr)
    mOut2,          \* SpecMap: map_db_error(mOut)
    mLog,           \* SpecMap: log events emitted by the calls of map_db_error
    pc,             \* Spec: where the request in flight stands
    nReq,           \* Spec: requests received so far
    req,            \* Spec: the request in flight (operation, headers, validity)
    correlation_id, \* Spec: dispatch's local correlation_id
    ctx,            \* Spec: structlog's bound context variables (a dict)
    nextUuid,       \* Spec: identifiers uuid.uuid4() has handed out
    priorIds,       \* Spec: correlation identifiers of the earlier requests
    principal,      \* Spec: the TokenPayload the dependency returned, or None
    exc,            \* Spec: the exception in flight, or NoExc
    svc,            \* Spec: the service operation: state, result, exception
    fetched,        \* Spec: what the collaborator calls of the operation gave
    resp,           \* Spec: the response, or NoResp
    outcome,        \* Spec: how dispatch ended: "response" or "raised"
    log,            \* Spec: the log events of the request in flight
    aPc,            \* SpecAuth: "input", "solved"
    aDep,           \* SpecAuth: the dependency: "user", "admin", "optional"
    aIn,            \* SpecAuth: the Authorization header, with what it is
    aOut,           \* SpecAuth: what the dependency returned or raised
    task,           \* SpecConc: the requests in flight, one asyncio task each
    contexts,       \* SpecConc: the contextvars context of each task
    dbPool,         \* SpecConc: Database.pool: None, or who holds each connection
    uuidsDrawn,     \* SpecConc: identifiers uuid.uuid4() has handed out
    fPc,            \* SpecFn: "input", "done"
    fCall,          \* SpecFn: the function called and its arguments
    fOut            \* SpecFn: what the call gave

mapVars == <<mPc, mErr, mOut, mOut2, mLog>>

pipeVars == <<pc, nReq, req, correlation_id, ctx, nextUuid, priorIds, principal,
              exc, svc, fetched, resp, outcome, log>>

authVars == <<aPc, aDep, aIn, aOut>>

concVars == <<task, contexts, dbPool, uuidsDrawn>>

fnVars == <<fPc, fCall, fOut>>

vars == <<DEBUG, mapVars, pipeVars, authVars, concVars, fnVars>>

\* ------------------------------------------------------------ string helpers

\* Python's `p in s` on strings.
Contains(s, p) ==
    \E i \in 1..(Len(s) - Len(p) + 1) : SubSeq(s, i, i + Len(p) - 1) = p

\* Python's None where a string is expected.
None == "<None>"

\* dict.get(key, default) on a record of claims.
Get(d, key, default) == IF key \in DOMAIN d THEN d[key] ELSE default

IsSpace(c) == c \in {" ", "\t", "\n"}

\* str.split(): the maximal runs of non-whitespace characters.
RECURSIVE SplitAt(_, _, _, _)
SplitAt(s, i, word, parts) ==
    IF i > Len(s)
    THEN IF word = "" THEN parts ELSE Append(parts, word)
    ELSE LET c == SubSeq(s, i, i)
         IN  IF IsSpace(c)
             THEN SplitAt(s, i + 1, "",
                          IF word = "" THEN parts ELSE Append(parts, word))
             ELSE SplitAt(s, i + 1, word \o c, parts)

split(s) == SplitAt(s, 1, "", <<>>)

UpperLetters == "ABCDEFGHIJKLMNOPQRSTUVWXYZ"
LowerLetters == "abcdefghijklmnopqrstuvwxyz"

LowerChar(c) ==
    IF \E i \in 1..26 : SubSeq(UpperLetters, i, i) = c
    THEN LET i == CHOOSE i \in 1..26 : SubSeq(UpperLetters, i, i) = c
         IN  SubSeq(LowerLetters, i, i)
    ELSE c

\* str.lower()
RECURSIVE lower(_)
lower(s) ==
    IF s = "" THEN ""
    ELSE LowerChar(SubSeq(s, 1, 1)) \o lower(SubSeq(s, 2, Len(s)))

\* str.replace('-', '')
RECURSIVE RemoveDashes(_)
RemoveDashes(s) ==
    IF s = "" THEN ""
    ELSE LET c == SubSeq(s, 1, 1)
             rest == RemoveDashes(SubSeq(s, 2, Len(s)))
         IN  IF c = "-" THEN rest ELSE c \o rest

\* uuid.UUID(hex): the exception it raises, or "ok". None is a
\* TypeError; a string that is not 32 hexadecimal digits once the dashes are
\* removed is a ValueError.
UuidError(hex) ==
    IF hex = None THEN "TypeError"
    ELSE LET h == RemoveDashes(hex)
         IN  IF Len(h) = 32
                /\ \A i \in 1..Len(h) :
                       Contains("0123456789abcdefABCDEF", SubSeq(h, i, i))
             THEN "ok"
             ELSE "ValueError"

\* ---------------------------------------------------------------- exceptions

\* One shape for every exception value. An APIException carries status_code,
\* error_code, message and details; any other exception carries only the text
\* that str() gives. A dict is a set of <<key, value>> pairs; Python's None
\* for `details` is written {} here, which `details or {}` maps it to.
Exc(cls, status_code, error_code, message, details, text) ==
    [cls |-> cls, status_code |-> status_code, error_code |-> error_code,
     message |-> message, details |-> details, text |-> text]

NoExc == Exc("None", 0, "", "", {}, "")

APIClasses == {"APIException", "NotFoundException", "ForbiddenException",
               "ValidationException", "ConflictException",
               "UnauthorizedException"}

IsAPI(e) == e.cls \in APIClasses

\* APIException.__init__: details or {} ; super().__init__(status_code, detail=message)
APIExceptionInit(cls, status_code, error_code, message, details) ==
    Exc(cls, status_code, error_code, message,
        IF details = {} THEN {} ELSE details, "")

APIException(status_code, error_code, message, details) ==
    APIExceptionInit("APIException", status_code, error_code, message, details)

NotFoundException(resource, details) ==
    APIExceptionInit("NotFoundException", 404, "NOT_FOUND",
                     resource \o " not found", details)

ForbiddenException(message, details) ==
    APIExceptionInit("ForbiddenException", 403, "FORBIDDEN", message, details)

ValidationException(message, details) ==
    APIExceptionInit("ValidationException", 422, "VALIDATION_ERROR", message, details)

\* Mutant: a status outside the taxonomy.
ConflictException_badstatus(message, details) ==
    APIExceptionInit("ConflictException", 400, "CONFLICT", message, details)

ConflictException(message, details) ==
    APIExceptionInit("ConflictException", 409, "CONFLICT", message, details)

UnauthorizedException(message, details) ==
    APIExceptionInit("UnauthorizedException", 401, "UNAUTHORIZED", message, details)

\* An exception that is not an APIException: a collaborator (asyncpg) error or
\* a Python runtime error.
PlainException(cls, text) == Exc(cls, 0, "", "", {}, text)

\* str(error). An APIException is an HTTPException built with
\* status_code and detail=message; its text is "<status_code>: <detail>",
\* never its error_code.
str(error) ==
    IF IsAPI(error)
    THEN ToString(error.status_code) \o ": " \o error.message
    ELSE error.text

\* isinstance(error, asyncpg.exceptions.<cls>)
isinstance(error, cls) == error.cls = cls

\* ------------------------------------------------------------- map_db_error

\* Mutant: the BLOCKED test moved behind the VALIDATION and CONFLICT tests.
MatchCustomCode_reordered(error_str) ==
    IF Contains(error_str, "ERR_NOT_FOUND") \/ Contains(error_str, "NOT_FOUND")
    THEN NotFoundException("Resource", {<<"database_error", error_str>>})
    ELSE IF Contains(error_str, "ERR_FORBIDDEN") \/ Contains(error_str, "FORBIDDEN")
    THEN ForbiddenException(error_str, {})
    ELSE IF Contains(error_str, "ERR_VALIDATION") \/ Contains(error_str, "VALIDATION")
    THEN ValidationException(error_str, {})
    ELSE IF Contains(error_str, "ERR_CONFLICT") \/ Contains(error_str, "CONFLICT")
    THEN ConflictException(error_str, {})
    ELSE IF Contains(error_str, "ERR_BLOCKED") \/ Contains(error_str, "BLOCKED")
    THEN ForbiddenException("User is blocked", {})
    ELSE IF Contains(error_str, "ERR_UNAUTHORIZED") \/ Contains(error_str, "UNAUTHORIZED")
    THEN UnauthorizedException(error_str, {})
    ELSE IF Contains(error_str, "ERR_PREMIUM_REQUIRED")
    THEN ForbiddenException("Premium subscription required", {})
    ELSE IF Contains(error_str, "ERR_USER_NOT_FOUND")
    THEN NotFoundException("User", {})
    ELSE IF Contains(error_str, "ERR_ACTIVITY_NOT_FOUND")
    THEN NotFoundException("Activity", {})
    ELSE IF Contains(error_str, "ERR_CATEGORY_NOT_FOUND")
    THEN NotFoundException("Category", {})
    ELSE NoExc

\* The custom error codes looked for in the error text, first match first;
\* NoExc when the text holds none of them and the code falls through.
MatchCustomCode(error_str) ==
    IF Contains(error_str, "ERR_NOT_FOUND") \/ Contains(error_str, "NOT_FOUND")
    THEN NotFoundException("Resource", {<<"database_error", error_str>>})
    ELSE IF Contains(error_str, "ERR_FORBIDDEN") \/ Contains(error_str, "FORBIDDEN")
    THEN ForbiddenException(error_str, {})
    ELSE IF Contains(error_str, "ERR_BLOCKED") \/ Contains(error_str, "BLOCKED")
    THEN ForbiddenException("User is blocked", {})
    ELSE IF Contains(error_str, "ERR_VALIDATION") \/ Contains(error_str, "VALIDATION")
    THEN ValidationException(error_str, {})
    ELSE IF Contains(error_str, "ERR_CONFLICT") \/ Contains(error_str, "CONFLICT")
    THEN ConflictException(error_str, {})
    ELSE IF Contains(error_str, "ERR_UNAUTHORIZED") \/ Contains(error_str, "UNAUTHORIZED")
    THEN UnauthorizedException(error_str, {})
    ELSE IF Contains(error_str, "ERR_PREMIUM_REQUIRED")
    THEN ForbiddenException("Premium subscription required", {})
    ELSE IF Contains(error_str, "ERR_USER_NOT_FOUND")
    THEN NotFoundException("User", {})
    ELSE IF Contains(error_str, "ERR_ACTIVITY_NOT_FOUND")
    THEN NotFoundException("Activity", {})
    ELSE IF Contains(error_str, "ERR_CATEGORY_NOT_FOUND")
    THEN NotFoundException("Category", {})
    ELSE NoExc

\* Mutant: the two isinstance tests exchanged.
MatchConstraint_swapped(error, error_str) ==
    IF isinstance(error, "UniqueViolationError")
    THEN NotFoundException("Referenced resource", {})
    ELSE IF isinstance(error, "ForeignKeyViolationError")
    THEN ConflictException("Resource already exists",
                           {<<"database_error", error_str>>})
    ELSE NoExc

\* The two constraint-violation types; NoExc when the error is neither.
MatchConstraint(error, error_str) ==
    IF isinstance(error, "ForeignKeyViolationError")
    THEN NotFoundException("Referenced resource", {})
    ELSE IF isinstance(error, "UniqueViolationError")
    THEN ConflictException("Resource already exists",
                           {<<"database_error", error_str>>})
    ELSE NoExc

\* Mutant: the raw text is returned whatever settings.DEBUG says.
InternalError_leaky(error_str) ==
    APIException(500, "DATABASE_ERROR", "An internal error occurred",
                 {<<"error", error_str>>})

\* The default: an internal server error, with the raw text in debug mode only.
InternalError(error_str) ==
    APIException(500, "DATABASE_ERROR", "An internal error occurred",
                 IF DEBUG THEN {<<"error", error_str>>} ELSE {})

map_db_error(error) ==
    LET error_str == str(error)
        coded == MatchCustomCode(error_str)
        constraint == MatchConstraint(error, error_str)
    IN  IF coded # NoExc THEN coded
        ELSE IF constraint # NoExc THEN constraint
        ELSE InternalError(error_str)

\* What map_db_error writes to the log: one error-level event, on the default
\* branch only.
map_db_error_log(error) ==
    IF map_db_error(error).error_code = "DATABASE_ERROR"
    THEN <<[level |-> "error", event |-> "unhandled_database_error",
            error |-> str(error), error_type |-> error.cls]>>
    ELSE <<>>

\* ------------------------------------------------------ exception handlers

NoResp == [status |-> 0, headers |-> {}, body |-> [none |-> TRUE], by |-> "none"]

\* JSONResponse(status_code, content): no header beyond the framework's own.
JSONResponse(status_code, content, by) ==
    [status |-> status_code, headers |-> {}, body |-> content, by |-> by]

api_exception_handler(e) ==
    JSONResponse(e.status_code,
                 [error |-> [code |-> e.error_code, message |-> e.message,
                             details |-> e.details]],
                 "api_exception_handler")

\* Mutant: a bad-request answer without the field-level violations.
validation_exception_handler_bare(e) ==
    JSONResponse(400,
                 [error |-> [code |-> "VALIDATION_ERROR",
                             message |-> "Request validation failed",
                             details |-> {}]],
                 "validation_exception_handler")

\* exc.errors() is the text the RequestValidationError carries.
validation_exception_handler(e) ==
    JSONResponse(422,
                 [error |-> [code |-> "VALIDATION_ERROR",
                             message |-> "Request validation failed",
                             details |-> {<<"errors", e.text>>}]],
                 "validation_exception_handler")

generic_exception_handler(e) ==
    JSONResponse(500,
                 [error |-> [code |-> "INTERNAL_ERROR",
                             message |-> "An internal error occurred"]],
                 "generic_exception_handler")

\* setup_exception_handlers: the handler registered for the exception's class.
\* APIException and RequestValidationError are rendered inside the middleware
\* stack; the handler registered for Exception renders everything else after
\* the exception has propagated through the middleware.
HandledInside(e) == IsAPI(e) \/ e.cls = "RequestValidationError"

RenderInside(e) ==
    IF IsAPI(e) THEN api_exception_handler(e)
    ELSE validation_exception_handler(e)

\* ------------------------------------------------------------------ security

\* The tokens of the model and what jose's jwt.decode finds in them: the key
\* that signed them, and their claims. A string outside the table is not a
\* JWS at all.
TokenStrings == {"tok.user", "tok.admin", "tok.nosub", "tok.badsub",
                 "tok.expired", "tok.forged", "tok.club", "tok.noroles",
                 "tok.gold"}

JwtTable ==
    [t \in TokenStrings |->
        CASE t = "tok.user" ->
               [key |-> "secret",
                claims |-> [sub |-> "3f2a0000-0000-4000-8000-00000000000a",
                            exp |-> 9, subscription_level |-> "premium"]]
          [] t = "tok.admin" ->
               [key |-> "secret",
                claims |-> [sub |-> "3f2a0000-0000-4000-8000-0000000000ad",
                            exp |-> 9, roles |-> <<"user", "admin">>]]
          [] t = "tok.nosub" ->
               [key |-> "secret", claims |-> [exp |-> 9]]
          [] t = "tok.badsub" ->
               [key |-> "secret", claims |-> [sub |-> "user-42"]]
          [] t = "tok.expired" ->
               [key |-> "secret",
                claims |-> [sub |-> "3f2a0000-0000-4000-8000-00000000000a",
                            exp |-> 1]]
          [] t = "tok.forged" ->
               [key |-> "other",
                claims |-> [sub |-> "3f2a0000-0000-4000-8000-0000000000ad",
                            exp |-> 9, roles |-> <<"admin">>]]
          [] t = "tok.club" ->
               [key |-> "secret",
                claims |-> [sub |-> "3f2a0000-0000-4000-8000-00000000000c",
                            exp |-> 9, subscription_level |-> "club",
                            roles |-> <<"moderator">>]]
          [] t = "tok.noroles" ->
               [key |-> "secret",
                claims |-> [sub |-> "3f2a0000-0000-4000-8000-00000000000d",
                            exp |-> 9, roles |-> <<>>]]
          [] t = "tok.gold" ->
               [key |-> "secret",
                claims |-> [sub |-> "3f2a0000-0000-4000-8000-00000000000e",
                            exp |-> 9, subscription_level |-> "gold"]]]

\* jwt.decode(token, settings.JWT_SECRET_KEY, algorithms=[...]) at time 5:
\* the claims, or a JWTError for a string that is no JWS, a signature made
\* with another key, or an exp claim in the past.
jwt_decode(token) ==
    IF token \notin TokenStrings
    THEN [ok |-> FALSE, error |-> "Not enough segments"]
    ELSE LET t == JwtTable[token] IN
         IF t.key # "secret"
         THEN [ok |-> FALSE, error |-> "Signature verification failed."]
         ELSE IF "exp" \in DOMAIN t.claims /\ t.claims.exp < 5
         THEN [ok |-> FALSE, error |-> "Signature has expired."]
         ELSE [ok |-> TRUE, payload |-> t.claims]

NoPrincipal == [none |-> TRUE]

\* TokenPayload.__init__
TokenPayload(payload) ==
    [user_id |-> Get(payload, "sub", None),
     email |-> Get(payload, "email", None),
     subscription_level |-> Get(payload, "subscription_level", "free"),
     ghost_mode |-> Get(payload, "ghost_mode", FALSE),
     roles |-> Get(payload, "roles", <<"user">>),
     org_id |-> Get(payload, "org_id", None),
     exp |-> Get(payload, "exp", None),
     iat |-> Get(payload, "iat", None),
     token_type |-> Get(payload, "type", "access")]

\* TokenPayload.is_admin
is_admin(user) == \E i \in DOMAIN user.roles : user.roles[i] = "admin"

\* The result of a dependency: the value it returns, or the exception it
\* raises, and what it logs.
Returned(value, logs) == [user |-> value, exc |-> NoExc, logs |-> logs]
Raised(e, logs) == [user |-> NoPrincipal, exc |-> e, logs |-> logs]

\* Mutant: the claims are read without checking signature or expiry.
decode_token_unverified(token) ==
    IF token \in TokenStrings
    THEN Returned(TokenPayload(JwtTable[token].claims), <<>>)
    ELSE Raised(UnauthorizedException("Invalid or expired token", {}),
                <<[event |-> "jwt_decode_failed", level |-> "warning"]>>)

decode_token(token) ==
    LET r == jwt_decode(token) IN
    IF r.ok
    THEN Returned(TokenPayload(r.payload), <<>>)
    ELSE Raised(UnauthorizedException("Invalid or expired token", {}),
                <<[event |-> "jwt_decode_failed", level |-> "warning"]>>)

\* A header: absent (Header(None) gives None) or present with a value.
AbsentHeader == [present |-> FALSE, value |-> ""]
Header(v) == [present |-> TRUE, value |-> v]

\* `not authorization`
Falsy(h) == ~h.present \/ h.value = ""

\* Mutant: accepts any header of two or more parts.
get_current_user_lenient(authorization) ==
    IF Falsy(authorization)
    THEN Raised(UnauthorizedException("Missing authorization header", {}), <<>>)
    ELSE LET parts == split(authorization.value) IN
         IF Len(parts) < 2 \/ lower(parts[1]) # "bearer"
         THEN Raised(UnauthorizedException("Invalid authorization header format", {}),
                     <<>>)
         ELSE decode_token(parts[2])

get_current_user(authorization) ==
    IF Falsy(authorization)
    THEN Raised(UnauthorizedException("Missing authorization header", {}), <<>>)
    ELSE LET parts == split(authorization.value) IN
         IF Len(parts) # 2 \/ lower(parts[1]) # "bearer"
         THEN Raised(UnauthorizedException("Invalid authorization header format", {}),
                     <<>>)
         ELSE decode_token(parts[2])

\* Mutant: any authenticated principal passes.
get_current_admin_anyuser(authorization) == get_current_user(authorization)

get_current_admin(authorization) ==
    LET r == get_current_user(authorization) IN
    IF r.exc # NoExc THEN r
    ELSE IF ~is_admin(r.user)
    THEN Raised(UnauthorizedException("Admin access required", {}), r.logs)
    ELSE r

\* Mutant: the exception of a token that does not decode is not caught.
get_optional_user_strict(authorization) ==
    IF Falsy(authorization) THEN Returned(NoPrincipal, <<>>)
    ELSE LET parts == split(authorization.value) IN
         IF Len(parts) # 2 \/ lower(parts[1]) # "bearer"
         THEN Returned(NoPrincipal, <<>>)
         ELSE decode_token(parts[2])

\* None for a missing or malformed header; `except Exception: return None`
\* for a token that does not decode.
get_optional_user(authorization) ==
    IF Falsy(authorization) THEN Returned(NoPrincipal, <<>>)
    ELSE LET parts == split(authorization.value) IN
         IF Len(parts) # 2 \/ lower(parts[1]) # "bearer"
         THEN Returned(NoPrincipal, <<>>)
         ELSE LET r == decode_token(parts[2]) IN
              IF r.exc # NoExc THEN Returned(NoPrincipal, r.logs) ELSE r

\* ------------------------------------------------------------- operations

\* The service operations, one route each.
Ops == {"create_activity", "get_activity_by_id", "update_activity",
        "cancel_activity", "delete_activity",
        "list_categories", "create_category", "update_category",
        "list_participants", "get_waitlist",
        "create_review", "list_reviews", "update_review", "delete_review",
        "search_activities", "nearby_activities", "personalized_feed",
        "recommendations", "get_popular_tags"}

\* The authentication dependency of the operation's route.
AuthOf(op) ==
    CASE op \in {"create_category", "update_category"} -> "admin"
      [] op \in {"list_categories", "list_reviews"} -> "optional"
      [] op = "get_popular_tags" -> "none"
      [] OTHER -> "user"

\* Whether the route declares a path, query or body parameter that request
\* validation can reject.
HasParams(op) == op # "list_categories"

\* The status of the route's success response.
SuccessStatus(op) ==
    IF op \in {"create_activity", "create_category", "create_review"}
    THEN 201 ELSE 200

\* The operations whose `if not rows` raises NotFoundException, and the
\* resource they name.
RaisesOnEmpty(op) ==
    op \in {"create_activity", "get_activity_by_id", "update_activity",
            "cancel_activity", "delete_activity",
            "create_category", "update_category",
            "list_participants", "get_waitlist",
            "create_review", "update_review", "delete_review"}

EmptyResource(op) ==
    CASE op = "create_activity" -> "Activity creation failed"
      [] op = "create_category" -> "Category creation failed"
      [] op = "create_review" -> "Review creation failed"
      [] op = "update_category" -> "Category"
      [] op \in {"update_review", "delete_review"} -> "Review"
      [] OTHER -> "Activity"

\* The operations that build a collection and skip the rows whose identity
\* column is null.
FiltersNullRows(op) ==
    op \in {"list_participants", "get_waitlist", "list_reviews",
            "search_activities", "nearby_activities", "personalized_feed",
            "recommendations"}

\* A collaborator row: its identity column (0 is null) and, as
\* sp_get_activity_reviews gives them, the anonymity flag, the reviewer (0 is
\* null) and whether the review is the requester's own.
ReviewRow(id, is_anonymous, reviewer_user_id, is_own_review) ==
    [id |-> id, is_anonymous |-> is_anonymous,
     reviewer_user_id |-> reviewer_user_id, is_own_review |-> is_own_review]

Row(id) == ReviewRow(id, FALSE, id, FALSE)

\* Mutant: the reviewer is shown whenever the row has one.
ReviewEntry_unmasked(row) ==
    [id |-> row.id, is_anonymous |-> row.is_anonymous,
     is_own_review |-> row.is_own_review,
     reviewer |-> IF row.reviewer_user_id # 0
                  THEN [user_id |-> row.reviewer_user_id]
                  ELSE [none |-> TRUE]]

\* review_data of list_reviews: the reviewer is None for an anonymous review
\* and for a row without reviewer.
ReviewEntry(row) ==
    [id |-> row.id, is_anonymous |-> row.is_anonymous,
     is_own_review |-> row.is_own_review,
     reviewer |-> IF ~row.is_anonymous /\ row.reviewer_user_id # 0
                  THEN [user_id |-> row.reviewer_user_id]
                  ELSE [none |-> TRUE]]

\* What a collaborator call gives: rows, or an exception.
GotRows(rows) == [kind |-> "rows", rows |-> rows, err |-> NoExc]
GotError(e) == [kind |-> "error", rows |-> <<>>, err |-> e]

\* Mutant: every row becomes an entry.
ServiceValue_unfiltered(op, rows) ==
    IF op = "list_reviews"
    THEN [items |-> [i \in DOMAIN rows |-> ReviewEntry(rows[i])]]
    ELSE IF FiltersNullRows(op) \/ op \in {"list_categories", "get_popular_tags"}
    THEN [items |-> rows]
    ELSE [row |-> rows[1]]

\* What the operation returns to its route on success: the entries built
\* from the rows whose identity column is not null, the rows as they are, or
\* the first row.
ServiceValue(op, rows) ==
    IF op = "list_reviews"
    THEN LET kept == SelectSeq(rows, LAMBDA r : r.id # 0)
         IN  [items |-> [i \in DOMAIN kept |-> ReviewEntry(kept[i])]]
    ELSE IF FiltersNullRows(op)
    THEN [items |-> SelectSeq(rows, LAMBDA r : r.id # 0)]
    ELSE IF op \in {"list_categories", "get_popular_tags"}
    THEN [items |-> rows]
    ELSE [row |-> rows[1]]

NoValue == [none |-> TRUE]

IdleSvc == [state |-> "idle", value |-> NoValue, raw |-> NoExc, exc |-> NoExc,
            mapCalls |-> 0]

\* A step of a service operation: its state afterwards ("probing", "returned"
\* or "raised"), the value returned, the exception raised inside the try
\* block (raw), the exception that leaves the operation (exc), the number of
\* map_db_error calls made, and the log events written.
SvcReturned(op, value) ==
    [state |-> "returned", value |-> value, raw |-> NoExc, exc |-> NoExc,
     mapCalls |-> 0,
     logs |-> <<[event |-> op \o "_ok", level |-> "info"]>>]

\* except Exception as e: logger.error(...); raise map_db_error(e)
SvcExcept(op, e) ==
    [state |-> "raised", value |-> NoValue, raw |-> e, exc |-> map_db_error(e),
     mapCalls |-> 1,
     logs |-> <<[event |-> op \o "_failed", level |-> "error"]>>
              \o map_db_error_log(e)]

SvcProbing ==
    [state |-> "probing", value |-> NoValue, raw |-> NoExc, exc |-> NoExc,
     mapCalls |-> 0, logs |-> <<>>]

\* Mutant: a collaborator failure is swallowed and an empty result returned.
AfterFetch_swallow(op, out) ==
    IF out.kind = "error"
    THEN SvcReturned(op, [items |-> <<>>])
    ELSE IF out.rows = <<>> /\ op = "list_reviews"
    THEN SvcProbing
    ELSE IF out.rows = <<>> /\ RaisesOnEmpty(op)
    THEN SvcExcept(op, NotFoundException(EmptyResource(op), {}))
    ELSE SvcReturned(op, ServiceValue(op, out.rows))

\* The operation from the return of its db.fetch_all to its next await or its
\* end: the collaborator's exception is caught and mapped; an empty result
\* raises NotFoundException inside the try block, which the same except
\* clause catches and maps; list_reviews goes on to its existence probe.
AfterFetch(op, out) ==
    IF out.kind = "error"
    THEN SvcExcept(op, out.err)
    ELSE IF out.rows = <<>> /\ op = "list_reviews"
    THEN SvcProbing
    ELSE IF out.rows = <<>> /\ RaisesOnEmpty(op)
    THEN SvcExcept(op, NotFoundException(EmptyResource(op), {}))
    ELSE SvcReturned(op, ServiceValue(op, out.rows))

\* Mutant: a failed existence probe is issued again.
AfterProbe_retry(op, out) ==
    IF out.kind = "error"
    THEN SvcProbing
    ELSE IF out.rows = <<>>
    THEN SvcExcept(op, NotFoundException("Activity", {}))
    ELSE SvcReturned(op, [total_reviews |-> 0, items |-> <<>>])

\* Mutant: an activity without reviews is reported missing.
AfterProbe_missing(op, out) ==
    IF out.kind = "error"
    THEN SvcExcept(op, out.err)
    ELSE SvcExcept(op, NotFoundException("Activity", {}))

\* list_reviews from the return of its db.fetch_one probe to its end.
AfterProbe(op, out) ==
    IF out.kind = "error"
    THEN SvcExcept(op, out.err)
    ELSE IF out.rows = <<>>
    THEN SvcExcept(op, NotFoundException("Activity", {}))
    ELSE SvcReturned(op, [total_reviews |-> 0, items |-> <<>>])

\* ---------------------------------------------------------- correlation

\* str(uuid.uuid4()): the n-th identifier handed out; never empty, never one
\* handed out before.
Uuid4(n) == "uuid4-" \o ToString(n)

\* Mutant: the inbound identifier is ignored.
ResolveCorrelationId_always_new(header, n) == Uuid4(n)

\* request.headers.get("X-Correlation-ID") or str(uuid.uuid4())
ResolveCorrelationId(header, n) ==
    IF header.present /\ header.value # "" THEN header.value ELSE Uuid4(n)

\* structlog.contextvars.bind_contextvars(correlation_id=...)
add_correlation_id(c, id) ==
    {p \in c : p[1] # "correlation_id"} \cup {<<"correlation_id", id>>}

\* Mutant: the finally clause leaves the identifier bound.
clear_correlation_id_noop(c) == c

\* structlog.contextvars.unbind_contextvars("correlation_id")
clear_correlation_id(c) == {p \in c : p[1] # "correlation_id"}

\* merge_contextvars: the correlation identifier a log event gets.
Bound(c) ==
    IF \E p \in c : p[1] = "correlation_id"
    THEN (CHOOSE p \in c : p[1] = "correlation_id")[2]
    ELSE None

Stamp(events, c) ==
    [i \in DOMAIN events |->
        [event |-> events[i].event, level |-> events[i].level,
         correlation_id |-> Bound(c)]]

\* response.headers[name] = value
SetHeader(r, name, value) ==
    [r EXCEPT !.headers = {p \in @ : p[1] # name} \cup {<<name, value>>}]

\* ------------------------------------------------------- inputs of Spec

\* Authorization headers, each with what it is: absent, malformed (not two
\* parts with the bearer scheme), invalid (no valid signature), expired, or
\* valid.
AuthHeaderCases ==
    { [header |-> AbsentHeader,                    case |-> "absent"],
      [header |-> Header(""),                      case |-> "absent"],
      [header |-> Header("Bearer"),                case |-> "malformed"],
      [header |-> Header("Bearer tok.user extra"), case |-> "malformed"],
      [header |-> Header("Basic tok.user"),        case |-> "malformed"],
      [header |-> Header("Bearer tok.forged"),     case |-> "invalid"],
      [header |-> Header("Bearer garbage"),        case |-> "invalid"],
      [header |-> Header("Bearer tok.expired"),    case |-> "expired"],
      [header |-> Header("Bearer tok.user"),       case |-> "valid"],
      [header |-> Header("BEARER \ttok.user"),     case |-> "valid"],
      [header |-> Header("Bearer tok.admin"),      case |-> "valid"],
      [header |-> Header("Bearer tok.nosub"),      case |-> "valid"],
      [header |-> Header("Bearer tok.badsub"),     case |-> "valid"] }

\* Inbound X-Correlation-ID headers.
CorrHeaders == {AbsentHeader, Header(""), Header("trace-A")}

\* Sequences of at most MaxRows rows.
RowSeqs == UNION {[1..n -> {Row(0), Row(1)}] : n \in 0..MaxRows}

\* Exceptions of a collaborator call in the pipeline.
PipeErrors ==
    { PlainException("PostgresError", "ERR_FORBIDDEN: not the organizer"),
      PlainException("PostgresError", "ERR_BLOCKED"),
      PlainException("PostgresError", "ERR_ACTIVITY_NOT_FOUND"),
      PlainException("ForeignKeyViolationError", " violates constraint"),
      PlainException("UniqueViolationError", " violates constraint"),
      PlainException("PostgresError", "connection refused"),
      PlainException("RuntimeError", "Database pool not initialized") }

FetchOutcomes == {GotRows(r) : r \in RowSeqs} \cup {GotError(e) : e \in PipeErrors}

\* db.fetch_one: one row, or None (no row).
ProbeOutcomes == {GotRows(<<Row(1)>>), GotRows(<<>>)}
                 \cup {GotError(e) : e \in PipeErrors}

\* ------------------------------------------------------------------- Spec

\* The variables of a specification that is not running.
MapIdle ==
    /\ mPc = "off" /\ mErr = NoExc /\ mOut = NoExc /\ mOut2 = NoExc /\ mLog = <<>>

AuthIdle ==
    /\ aPc = "off" /\ aDep = "none" /\ aOut = Returned(NoPrincipal, <<>>)
    /\ aIn = [header |-> AbsentHeader, case |-> "absent"]

ConcIdle ==
    /\ task = <<>> /\ contexts = <<>> /\ dbPool = <<>> /\ uuidsDrawn = 0

FnIdle ==
    /\ fPc = "off" /\ fCall = [fn |-> "none"] /\ fOut = NoValue

Init ==
    /\ DEBUG \in BOOLEAN
    /\ MapIdle /\ AuthIdle /\ ConcIdle /\ FnIdle
    /\ pc = "idle"
    /\ nReq = 0
    /\ req = [op |-> "none", corr |-> AbsentHeader, auth |-> AbsentHeader,
              authCase |-> "absent", valid |-> TRUE]
    /\ correlation_id = None
    /\ ctx = {}
    /\ nextUuid = 0
    /\ priorIds = {}
    /\ principal = NoPrincipal
    /\ exc = NoExc
    /\ svc = IdleSvc
    /\ fetched = <<>>
    /\ resp = NoResp
    /\ outcome = "none"
    /\ log = <<>>

\* A request arrives, once the one before it has ended.
Receive ==
    /\ pc = "idle"
    /\ nReq < MaxRequests
    /\ \E op \in Ops, c \in CorrHeaders, a \in AuthHeaderCases, v \in BOOLEAN :
          /\ ~v => HasParams(op)
          /\ req' = [op |-> op, corr |-> c, auth |-> a.header,
                     authCase |-> a.case, valid |-> v]
    /\ nReq' = nReq + 1
    /\ pc' = "received"
    /\ UNCHANGED <<DEBUG, fnVars, mapVars, authVars, concVars, correlation_id, ctx, nextUuid, priorIds,
                   principal, exc, svc, fetched, resp, outcome, log>>

\* CorrelationMiddleware.dispatch up to `await call_next(request)`.
Dispatch ==
    /\ pc = "received"
    /\ LET cid == ResolveCorrelationId(req.corr, nextUuid) IN
          /\ correlation_id' = cid
          /\ nextUuid' = IF cid = Uuid4(nextUuid) THEN nextUuid + 1 ELSE nextUuid
          /\ ctx' = add_correlation_id(ctx, cid)
          /\ log' = log \o Stamp(<<[event |-> "request_started", level |-> "info"]>>,
                                 add_correlation_id(ctx, cid))
    /\ pc' = "deps"
    /\ UNCHANGED <<DEBUG, fnVars, mapVars, authVars, concVars, nReq, req, priorIds, principal, exc, svc,
                   fetched, resp, outcome>>

\* The route's authentication dependency.
Authenticate ==
    /\ pc = "deps"
    /\ LET r == CASE AuthOf(req.op) = "user" -> get_current_user(req.auth)
                  [] AuthOf(req.op) = "admin" -> get_current_admin(req.auth)
                  [] AuthOf(req.op) = "optional" -> get_optional_user(req.auth)
                  [] OTHER -> Returned(NoPrincipal, <<>>)
       IN /\ principal' = r.user
          /\ exc' = r.exc
          /\ log' = log \o Stamp(r.logs, ctx)
          /\ pc' = IF r.exc # NoExc THEN "raised" ELSE "validate"
    /\ UNCHANGED <<DEBUG, fnVars, mapVars, authVars, concVars, nReq, req, correlation_id, ctx, nextUuid,
                   priorIds, svc, fetched, resp, outcome>>

\* The route's parameters are validated against their schema.
ValidateRequest ==
    /\ pc = "validate"
    /\ IF req.valid
       THEN /\ pc' = "handler"
            /\ exc' = exc
       ELSE /\ pc' = "raised"
            /\ exc' = PlainException("RequestValidationError", "value is not valid")
    /\ UNCHANGED <<DEBUG, fnVars, mapVars, authVars, concVars, nReq, req, correlation_id, ctx, nextUuid,
                   priorIds, principal, svc, fetched, resp, outcome, log>>

\* The route function: UUID(current_user.user_id) where the route computes
\* it, then the service operation up to its `await self.db.fetch_all(...)`.
RouteHandler ==
    /\ pc = "handler"
    /\ LET converts == \/ AuthOf(req.op) = "user"
                       \/ (req.op = "list_reviews" /\ principal # NoPrincipal)
           e == IF converts THEN UuidError(principal.user_id) ELSE "ok"
       IN IF e # "ok"
          THEN /\ exc' = PlainException(e, "badly formed UUID argument")
               /\ pc' = "raised"
               /\ svc' = svc
          ELSE /\ exc' = exc
               /\ pc' = "collab"
               /\ svc' = [IdleSvc EXCEPT !.state = "fetching"]
    /\ UNCHANGED <<DEBUG, fnVars, mapVars, authVars, concVars, nReq, req, correlation_id, ctx, nextUuid,
                   priorIds, principal, fetched, resp, outcome, log>>

\* What a finished step of the service operation leaves behind: the probe to
\* wait for, the exception raised into the route, or the route's response.
SvcStep(r) ==
    /\ svc' = [state |-> r.state, value |-> r.value, raw |-> r.raw,
               exc |-> r.exc, mapCalls |-> svc.mapCalls + r.mapCalls]
    /\ log' = log \o Stamp(r.logs, ctx)
    /\ exc' = r.exc
    /\ pc' = CASE r.state = "probing" -> "probe"
               [] r.state = "raised" -> "raised"
               [] OTHER -> "returning"
    /\ resp' = IF r.state = "returned"
               THEN JSONResponse(SuccessStatus(req.op), [data |-> r.value], "route")
               ELSE resp

\* db.fetch_all returns or raises, and the operation runs on.
CollabReturn ==
    /\ pc = "collab"
    /\ \E out \in FetchOutcomes :
          /\ fetched' = Append(fetched, out)
          /\ SvcStep(AfterFetch(req.op, out))
    /\ UNCHANGED <<DEBUG, fnVars, mapVars, authVars, concVars, nReq, req, correlation_id, ctx, nextUuid,
                   priorIds, principal, outcome>>

\* list_reviews: db.fetch_one of the existence probe returns or raises.
ProbeReturn ==
    /\ pc = "probe"
    /\ \E out \in ProbeOutcomes :
          /\ fetched' = Append(fetched, out)
          /\ SvcStep(AfterProbe(req.op, out))
    /\ UNCHANGED <<DEBUG, fnVars, mapVars, authVars, concVars, nReq, req, correlation_id, ctx, nextUuid,
                   priorIds, principal, outcome>>

\* The exception raised below the middleware: rendered by the handler
\* registered for its class, or left to propagate.
HandleException ==
    /\ pc = "raised"
    /\ IF HandledInside(exc)
       THEN /\ resp' = RenderInside(exc)
            /\ log' = log \o Stamp(<<[event |-> IF IsAPI(exc) THEN "api_exception"
                                                ELSE "validation_error",
                                      level |-> "warning"]>>, ctx)
            /\ pc' = "returning"
       ELSE /\ resp' = resp
            /\ log' = log
            /\ pc' = "propagating"
    /\ UNCHANGED <<DEBUG, fnVars, mapVars, authVars, concVars, nReq, req, correlation_id, ctx, nextUuid,
                   priorIds, principal, exc, svc, fetched, outcome>>

\* dispatch after call_next returned a response: the header, the log event,
\* `return response`, and the finally clause.
DispatchReturn ==
    /\ pc = "returning"
    /\ resp' = SetHeader(resp, "X-Correlation-ID", correlation_id)
    /\ log' = log \o Stamp(<<[event |-> "request_completed", level |-> "info"]>>, ctx)
    /\ ctx' = clear_correlation_id(ctx)
    /\ outcome' = "response"
    /\ pc' = "done"
    /\ UNCHANGED <<DEBUG, fnVars, mapVars, authVars, concVars, nReq, req, correlation_id, nextUuid, priorIds,
                   principal, exc, svc, fetched>>

\* dispatch after call_next raised: the except clause logs and re-raises, and
\* the finally clause runs.
DispatchRaise ==
    /\ pc = "propagating"
    /\ log' = log \o Stamp(<<[event |-> "request_failed", level |-> "error"]>>, ctx)
    /\ ctx' = clear_correlation_id(ctx)
    /\ outcome' = "raised"
    /\ pc' = "server_error"
    /\ UNCHANGED <<DEBUG, fnVars, mapVars, authVars, concVars, nReq, req, correlation_id, nextUuid, priorIds,
                   principal, exc, svc, fetched, resp>>

\* The exception has left the middleware: the handler registered for
\* Exception renders the response.
ServerError ==
    /\ pc = "server_error"
    /\ resp' = generic_exception_handler(exc)
    /\ log' = log \o Stamp(<<[event |-> "unhandled_exception", level |-> "error"]>>, ctx)
    /\ pc' = "done"
    /\ UNCHANGED <<DEBUG, fnVars, mapVars, authVars, concVars, nReq, req, correlation_id, ctx, nextUuid,
                   priorIds, principal, exc, svc, fetched, outcome>>

\* The request's task ends and its request-scoped objects are dropped; only
\* the process state (the context, the identifiers handed out) stays.
EndRequest ==
    /\ pc = "done"
    /\ priorIds' = priorIds \cup {correlation_id}
    /\ req' = [op |-> "none", corr |-> AbsentHeader, auth |-> AbsentHeader,
               authCase |-> "absent", valid |-> TRUE]
    /\ correlation_id' = None
    /\ principal' = NoPrincipal
    /\ exc' = NoExc
    /\ svc' = IdleSvc
    /\ fetched' = <<>>
    /\ resp' = NoResp
    /\ outcome' = "none"
    /\ log' = <<>>
    /\ pc' = "idle"
    /\ UNCHANGED <<DEBUG, fnVars, mapVars, authVars, concVars, nReq, ctx, nextUuid>>

Next ==
    \/ Receive
    \/ Dispatch
    \/ Authenticate
    \/ ValidateRequest
    \/ RouteHandler
    \/ CollabReturn
    \/ ProbeReturn
    \/ HandleException
    \/ DispatchReturn
    \/ DispatchRaise
    \/ ServerError
    \/ EndRequest

Spec == Init /\ [][Next]_vars

\* ------------------------------------------------------ inputs of SpecMap

\* Fragments of collaborator error texts: the code words map_db_error looks
\* for, the prefixes that build the longer ones, and two texts without any.
Frags == {"ERR_BLOCKED", "NOT_FOUND", "FORBIDDEN", "BLOCKED", "VALIDATION",
          "CONFLICT", "UNAUTHORIZED", "ERR_PREMIUM_REQUIRED", "ERR_USER_",
          "ERR_ACTIVITY_", "ERR_CATEGORY_", " violates constraint",
          "connection refused"}

RECURSIVE TextsUpTo(_)
TextsUpTo(n) ==
    IF n = 0 THEN {""}
    ELSE LET shorter == TextsUpTo(n - 1)
         IN  shorter \cup {t \o f : t \in shorter, f \in Frags}

Texts == TextsUpTo(MaxFrags)

\* Classes of the exceptions a collaborator call raises: asyncpg's generic
\* PostgresError (a stored procedure's RAISE), its two constraint-violation
\* subclasses, and database.py's RuntimeError.
CollabClasses == {"PostgresError", "ForeignKeyViolationError",
                  "UniqueViolationError", "RuntimeError"}

CollabErrors == {PlainException(c, t) : c \in CollabClasses, t \in Texts}

\* The resources the services name in their own NotFoundException.
ServiceResources == {"Activity", "Review", "Category",
                     "Activity creation failed", "Review creation failed",
                     "Category creation failed"}

\* Structured application errors as the constructors of exceptions.py build
\* them: the NotFoundException of the services' empty-result checks, and the
\* other four kinds with their default message or a short text.
ServiceErrors ==
    {NotFoundException(r, {}) : r \in ServiceResources}
    \cup {ForbiddenException(m, {}) : m \in {"Access forbidden"} \cup TextsUpTo(1)}
    \cup {ValidationException(m, {}) : m \in TextsUpTo(1)}
    \cup {ConflictException(m, {}) : m \in {"Resource already exists"} \cup TextsUpTo(1)}
    \cup {UnauthorizedException(m, {}) :
            m \in {"Unauthorized", "Invalid or expired token"} \cup TextsUpTo(1)}

MapInputs == CollabErrors \cup ServiceErrors

\* --------------------------------------------------------------- SpecMap

\* The pipeline stands still under SpecMap.
PipeIdle ==
    /\ pc = "off"
    /\ nReq = 0
    /\ req = [op |-> "none", corr |-> AbsentHeader, auth |-> AbsentHeader,
              authCase |-> "absent", valid |-> TRUE]
    /\ correlation_id = None
    /\ ctx = {}
    /\ nextUuid = 0
    /\ priorIds = {}
    /\ principal = NoPrincipal
    /\ exc = NoExc
    /\ svc = IdleSvc
    /\ fetched = <<>>
    /\ resp = NoResp
    /\ outcome = "none"
    /\ log = <<>>

InitMap ==
    /\ DEBUG \in BOOLEAN
    /\ mPc = "input"
    /\ mErr \in MapInputs
    /\ mOut = NoExc
    /\ mOut2 = NoExc
    /\ mLog = <<>>
    /\ PipeIdle /\ AuthIdle /\ ConcIdle /\ FnIdle

\* mOut = map_db_error(mErr)
Classify ==
    /\ mPc = "input"
    /\ mOut' = map_db_error(mErr)
    /\ mLog' = mLog \o map_db_error_log(mErr)
    /\ mPc' = "mapped"
    /\ UNCHANGED <<DEBUG, fnVars, mErr, mOut2, pipeVars, authVars, concVars>>

\* mOut2 = map_db_error(map_db_error(mErr))
Reclassify ==
    /\ mPc = "mapped"
    /\ mOut2' = map_db_error(mOut)
    /\ mLog' = mLog \o map_db_error_log(mOut)
    /\ mPc' = "remapped"
    /\ UNCHANGED <<DEBUG, fnVars, mErr, mOut, pipeVars, authVars, concVars>>

NextMap == Classify \/ Reclassify

SpecMap == InitMap /\ [][NextMap]_vars

\* ----------------------------------------------------------------- SpecAuth

\* Authorization headers handed to the dependencies: those of the pipeline,
\* and valid tokens with other claims (another tier and role, an empty role
\* list, a tier outside the known ones), a lower-case scheme, a token without
\* scheme.
AuthInputs ==
    AuthHeaderCases \cup
    { [header |-> Header("Bearer tok.club"),    case |-> "valid"],
      [header |-> Header("Bearer tok.noroles"), case |-> "valid"],
      [header |-> Header("Bearer tok.gold"),    case |-> "valid"],
      [header |-> Header("bearer tok.admin"),   case |-> "valid"],
      [header |-> Header("tok.user"),           case |-> "malformed"],
      [header |-> Header("Bearer  "),           case |-> "malformed"] }

\* The dependencies of app/core/security.py.
AuthDeps == {"user", "admin", "optional"}

InitAuth ==
    /\ DEBUG \in BOOLEAN
    /\ aPc = "input"
    /\ aDep \in AuthDeps
    /\ aIn \in AuthInputs
    /\ aOut = Returned(NoPrincipal, <<>>)
    /\ MapIdle /\ PipeIdle /\ ConcIdle /\ FnIdle

\* aOut = get_current_user(authorization)
SolveUser ==
    /\ aPc = "input" /\ aDep = "user"
    /\ aOut' = get_current_user(aIn.header)
    /\ aPc' = "solved"
    /\ UNCHANGED <<DEBUG, fnVars, aDep, aIn, mapVars, pipeVars, concVars>>

\* aOut = get_current_admin(authorization)
SolveAdmin ==
    /\ aPc = "input" /\ aDep = "admin"
    /\ aOut' = get_current_admin(aIn.header)
    /\ aPc' = "solved"
    /\ UNCHANGED <<DEBUG, fnVars, aDep, aIn, mapVars, pipeVars, concVars>>

\* aOut = get_optional_user(authorization)
SolveOptional ==
    /\ aPc = "input" /\ aDep = "optional"
    /\ aOut' = get_optional_user(aIn.header)
    /\ aPc' = "solved"
    /\ UNCHANGED <<DEBUG, fnVars, aDep, aIn, mapVars, pipeVars, concVars>>

NextAuth == SolveUser \/ SolveAdmin \/ SolveOptional

SpecAuth == InitAuth /\ [][NextAuth]_vars

\* ----------------------------------------------------------------- SpecConc

\* Each request is handled on an asyncio task of its own. The steps of a
\* task are the stretches of code between two awaits that can suspend it;
\* between them the steps of the other tasks interleave.

Tasks == 1..MaxTasks

Conns == 1..PoolSize

\* Mutant: one context for the whole worker.
ContextOf_shared(t) == 1

\* The contextvars context structlog's bind_contextvars and
\* unbind_contextvars act on when called from task t: the task's own copy.
\* (The downstream stage runs under a copy taken after the identifier was
\* bound, which neither side changes while it runs.)
ContextOf(t) == t

\* Mutant: the connection goes back to the pool on a normal return only.
pool_release_on_success(p, t, out) ==
    IF out.kind = "rows"
    THEN [c \in DOMAIN p |-> IF p[c] = t THEN 0 ELSE p[c]]
    ELSE p

\* The exit of `async with self.pool.acquire() as conn`: the connection of
\* task t goes back to the pool, whether the block returned or raised.
pool_release(p, t, out) ==
    [c \in DOMAIN p |-> IF p[c] = t THEN 0 ELSE p[c]]

\* The connections task t holds.
Held(p, t) == {c \in DOMAIN p : p[c] = t}

\* Requests of the concurrent runs: an operation behind get_current_user
\* without an inbound identifier, one behind get_optional_user with an
\* inbound identifier, and one whose token has no subject, so that the route
\* raises an exception no inner handler renders.
ConcRequests ==
    { [op |-> "get_activity_by_id", corr |-> AbsentHeader,
       auth |-> Header("Bearer tok.user")],
      [op |-> "list_reviews", corr |-> Header("trace-A"),
       auth |-> Header("Bearer tok.user")],
      [op |-> "get_activity_by_id", corr |-> AbsentHeader,
       auth |-> Header("Bearer tok.nosub")] }

\* What conn.fetch / conn.fetchrow gives in the concurrent runs.
ConcOutcomes ==
    {GotRows(<<Row(1)>>), GotRows(<<>>),
     GotError(PlainException("PostgresError", "ERR_BLOCKED"))}

\* The exception of a pool.acquire() that fails.
AcquireError == PlainException("PostgresError", "connection refused")

NewTask ==
    [pc |-> "new",
     req |-> [op |-> "none", corr |-> AbsentHeader, auth |-> AbsentHeader],
     correlation_id |-> None, calls |-> 0, probing |-> FALSE,
     exc |-> NoExc, resp |-> NoResp, log |-> <<>>]

InitConc ==
    /\ DEBUG \in BOOLEAN
    /\ task = [t \in Tasks |-> NewTask]
    /\ contexts = [t \in Tasks |-> {}]
    /\ dbPool = [c \in Conns |-> 0]
    /\ uuidsDrawn = 0
    /\ MapIdle /\ PipeIdle /\ AuthIdle /\ FnIdle

\* The log events of task t, stamped from the context the task runs under.
TaskStamp(t, events, cs) == Stamp(events, cs[ContextOf(t)])

\* CorrelationMiddleware.dispatch of a new request up to
\* `await call_next(request)`.
TaskDispatch(t) ==
    /\ task[t].pc = "new"
    /\ \E r \in ConcRequests :
          LET cid == ResolveCorrelationId(r.corr, uuidsDrawn)
              cs == [contexts EXCEPT ![ContextOf(t)] = add_correlation_id(@, cid)]
          IN /\ uuidsDrawn' = IF cid = Uuid4(uuidsDrawn)
                              THEN uuidsDrawn + 1 ELSE uuidsDrawn
             /\ contexts' = cs
             /\ task' = [task EXCEPT ![t] =
                    [@ EXCEPT !.pc = "downstream", !.req = r,
                              !.correlation_id = cid,
                              !.log = TaskStamp(t, <<[event |-> "request_started",
                                                      level |-> "info"]>>, cs)]]
    /\ UNCHANGED <<DEBUG, fnVars, dbPool, mapVars, pipeVars, authVars>>

\* The exception e raised below the middleware in task t: rendered by
\* api_exception_handler, or left to propagate to dispatch.
TaskRaised(t, e, logs) ==
    IF HandledInside(e)
    THEN [task[t] EXCEPT
             !.pc = "exiting", !.exc = e, !.resp = RenderInside(e),
             !.log = @ \o TaskStamp(t, logs \o <<[event |-> "api_exception",
                                                  level |-> "warning"]>>,
                                    contexts)]
    ELSE [task[t] EXCEPT
             !.pc = "exiting", !.exc = e,
             !.log = @ \o TaskStamp(t, logs, contexts)]

\* The downstream stage from its start to the first `pool.acquire()`: the
\* authentication dependency of the route, the route function with its
\* UUID(current_user.user_id), the service operation up to db.fetch_all.
TaskEnter(t) ==
    /\ task[t].pc = "downstream"
    /\ LET op == task[t].req.op
           r == IF AuthOf(op) = "user"
                THEN get_current_user(task[t].req.auth)
                ELSE get_optional_user(task[t].req.auth)
           e == IF r.user # NoPrincipal THEN UuidError(r.user.user_id) ELSE "ok"
       IN task' = [task EXCEPT ![t] =
              IF r.exc # NoExc THEN TaskRaised(t, r.exc, r.logs)
              ELSE IF e # "ok"
              THEN TaskRaised(t, PlainException(e, "badly formed UUID argument"),
                              r.logs)
              ELSE [@ EXCEPT !.pc = "acquiring",
                             !.log = @ \o TaskStamp(t, r.logs, contexts)]]
    /\ UNCHANGED <<DEBUG, fnVars, contexts, dbPool, uuidsDrawn, mapVars, pipeVars, authVars>>

\* Task t after a step r of its service operation (see AfterFetch): it waits
\* for the connection of the probe, or the operation has ended and the
\* response or the exception goes up to dispatch.
TaskAfterCall(t, r) ==
    CASE r.state = "probing" ->
           [task[t] EXCEPT !.pc = "acquiring", !.probing = TRUE,
                           !.calls = @ + 1]
      [] r.state = "raised" ->
           [TaskRaised(t, r.exc, r.logs) EXCEPT !.calls = @ + 1]
      [] OTHER ->
           [task[t] EXCEPT
               !.pc = "exiting", !.calls = @ + 1,
               !.resp = JSONResponse(SuccessStatus(task[t].req.op),
                                     [data |-> r.value], "route"),
               !.log = @ \o TaskStamp(t, r.logs, contexts)]

\* `async with self.pool.acquire() as conn` is entered: task t gets a free
\* connection, waiting as long as there is none.
TaskAcquire(t) ==
    /\ task[t].pc = "acquiring"
    /\ \E c \in Conns :
          /\ dbPool[c] = 0
          /\ dbPool' = [dbPool EXCEPT ![c] = t]
    /\ task' = [task EXCEPT ![t].pc = "calling"]
    /\ UNCHANGED <<DEBUG, fnVars, contexts, uuidsDrawn, mapVars, pipeVars, authVars>>

\* pool.acquire() raises: no connection was taken, and the exception is
\* caught by the except clause of the service operation.
TaskAcquireFails(t) ==
    /\ task[t].pc = "acquiring"
    /\ task' = [task EXCEPT ![t] =
           TaskAfterCall(t, SvcExcept(task[t].req.op, AcquireError))]
    /\ UNCHANGED <<DEBUG, fnVars, contexts, dbPool, uuidsDrawn, mapVars, pipeVars, authVars>>

\* conn.fetch / conn.fetchrow returns or raises: the `async with` block is
\* left, and the service operation runs on to its next await or to its end.
TaskCallReturn(t) ==
    /\ task[t].pc = "calling"
    /\ \E out \in ConcOutcomes :
          /\ dbPool' = pool_release(dbPool, t, out)
          /\ task' = [task EXCEPT ![t] =
                 TaskAfterCall(t, IF task[t].probing
                                  THEN AfterProbe(task[t].req.op, out)
                                  ELSE AfterFetch(task[t].req.op, out))]
    /\ UNCHANGED <<DEBUG, fnVars, contexts, uuidsDrawn, mapVars, pipeVars, authVars>>

\* dispatch after `await call_next(request)`: with a response, the header,
\* the log event, the return; with an exception, the log event and the
\* re-raise, after which the handler registered for Exception renders the
\* 500. The finally clause clears the identifier on both paths.
TaskExit(t) ==
    /\ task[t].pc = "exiting"
    /\ LET cs == [contexts EXCEPT ![ContextOf(t)] = clear_correlation_id(@)]
       IN /\ contexts' = cs
          /\ task' = [task EXCEPT ![t] =
                 IF task[t].resp # NoResp
                 THEN [@ EXCEPT
                          !.pc = "done",
                          !.resp = SetHeader(@, "X-Correlation-ID",
                                             task[t].correlation_id),
                          !.log = @ \o TaskStamp(t, <<[event |-> "request_completed",
                                                       level |-> "info"]>>,
                                                 contexts)]
                 ELSE [@ EXCEPT
                          !.pc = "done",
                          !.resp = generic_exception_handler(task[t].exc),
                          !.log = @ \o TaskStamp(t, <<[event |-> "request_failed",
                                                       level |-> "error"]>>,
                                                 contexts)
                                    \o TaskStamp(t, <<[event |-> "unhandled_exception",
                                                       level |-> "error"]>>, cs)]]
    /\ UNCHANGED <<DEBUG, fnVars, dbPool, uuidsDrawn, mapVars, pipeVars, authVars>>

NextConc ==
    \E t \in Tasks :
        \/ TaskDispatch(t)
        \/ TaskEnter(t)
        \/ TaskAcquire(t)
        \/ TaskAcquireFails(t)
        \/ TaskCallReturn(t)
        \/ TaskExit(t)

SpecConc == InitConc /\ [][NextConc]_vars

\* ------------------------------------------------------- tags and tag limit

\* str.lstrip() and str.rstrip()
RECURSIVE lstrip(_)
lstrip(s) ==
    IF s # "" /\ IsSpace(SubSeq(s, 1, 1)) THEN lstrip(SubSeq(s, 2, Len(s))) ELSE s

RECURSIVE rstrip(_)
rstrip(s) ==
    IF s # "" /\ IsSpace(SubSeq(s, Len(s), Len(s)))
    THEN rstrip(SubSeq(s, 1, Len(s) - 1)) ELSE s

\* str.strip()
strip(s) == rstrip(lstrip(s))

\* s[:n]
Truncate(s, n) == SubSeq(s, 1, IF Len(s) < n THEN Len(s) ELSE n)

\* A tags field of a request body: absent (or null), or a list of strings.
NoTags == [present |-> FALSE, list |-> <<>>]
TagList(v) == [present |-> TRUE, list |-> v]

\* The outcome of validating a field: the value the model gets, or the
\* violation reported.
Accepted(tags) == [ok |-> TRUE, tags |-> tags, error |-> ""]
Rejected(error) == [ok |-> FALSE, tags |-> NoTags, error |-> error]

\* validate_tags of ActivityCreate and of ActivityUpdate, on a list.
validate_tags(v) ==
    IF Len(v) > MaxTags
    THEN Rejected("Value error, Maximum 20 tags allowed")
    ELSE LET kept == SelectSeq(v, LAMBDA tag : strip(tag) # "")
         IN  Accepted(TagList([i \in DOMAIN kept |->
                                  Truncate(strip(kept[i]), TagMaxLen)]))

\* Mutant: only the validator's result is limited.
TagsField_unbounded(schema, tags) ==
    IF ~tags.present
    THEN Accepted(IF schema = "ActivityCreate" THEN TagList(<<>>) ELSE NoTags)
    ELSE LET kept == SelectSeq(tags.list, LAMBDA tag : strip(tag) # "") IN
         IF Len(kept) > MaxTags
         THEN Rejected("List should have at most 20 items after validation")
         ELSE Accepted(TagList([i \in DOMAIN kept |->
                                   Truncate(strip(kept[i]), TagMaxLen)]))

\* The tags field of ActivityCreate (default_factory=list) and of
\* ActivityUpdate (default None): the max_length=20 constraint of the field,
\* then validate_tags.
TagsField(schema, tags) ==
    IF ~tags.present
    THEN Accepted(IF schema = "ActivityCreate" THEN TagList(<<>>) ELSE NoTags)
    ELSE IF Len(tags.list) > MaxTags
    THEN Rejected("List should have at most 20 items after validation")
    ELSE validate_tags(tags.list)

\* Mutant: the requested limit is passed on as it is.
get_popular_tags_args_unclamped(limit, prefix) ==
    [limit |-> limit, prefix |-> prefix]

\* The arguments get_popular_tags passes to sp_get_popular_tags.
get_popular_tags_args(limit, prefix) ==
    [limit |-> IF limit < MaxTagLimit THEN limit ELSE MaxTagLimit,
     prefix |-> prefix]

\* ------------------------------------------------------------ route matching

\* A path is the sequence of its segments below the API prefix; a segment in
\* braces is a path parameter.
Route(method, path, op) == [method |-> method, path |-> path, op |-> op]

\* The routes in the order they are registered: main.py includes the
\* routers of categories, activities, participants, reviews and tags, and
\* each router holds its routes in the order of the file.
RouteTable ==
    << Route("GET", <<"categories">>, "list_categories"),
       Route("POST", <<"categories">>, "create_category"),
       Route("PUT", <<"categories", "{category_id}">>, "update_category"),
       Route("POST", <<"activities">>, "create_activity"),
       Route("GET", <<"activities", "{activity_id}">>, "get_activity_by_id"),
       Route("PUT", <<"activities", "{activity_id}">>, "update_activity"),
       Route("POST", <<"activities", "{activity_id}", "cancel">>, "cancel_activity"),
       Route("DELETE", <<"activities", "{activity_id}">>, "delete_activity"),
       Route("GET", <<"activities", "search">>, "search_activities"),
       Route("GET", <<"activities", "nearby">>, "nearby_activities"),
       Route("GET", <<"activities", "feed">>, "personalized_feed"),
       Route("GET", <<"activities", "recommendations">>, "recommendations"),
       Route("GET", <<"activities", "{activity_id}", "participants">>,
             "list_participants"),
       Route("GET", <<"activities", "{activity_id}", "waitlist">>, "get_waitlist"),
       Route("POST", <<"activities", "{activity_id}", "reviews">>, "create_review"),
       Route("GET", <<"activities", "{activity_id}", "reviews">>, "list_reviews"),
       Route("PUT", <<"reviews", "{review_id}">>, "update_review"),
       Route("DELETE", <<"reviews", "{review_id}">>, "delete_review"),
       Route("GET", <<"activities", "tags", "popular">>, "get_popular_tags") >>

IsParam(segment) == SubSeq(segment, 1, 1) = "{"

\* The path regex of a route: a parameter matches any non-empty segment.
PathMatches(pattern, path) ==
    /\ Len(pattern) = Len(path)
    /\ \A i \in DOMAIN pattern :
           IF IsParam(pattern[i]) THEN path[i] # "" ELSE pattern[i] = path[i]

\* Router: the first route whose path and method match handles the request;
\* 0 if there is none.
Resolve(method, path) ==
    LET full == {i \in DOMAIN RouteTable :
                    /\ RouteTable[i].method = method
                    /\ PathMatches(RouteTable[i].path, path)}
    IN  IF full = {} THEN 0
        ELSE CHOOSE i \in full : \A j \in full : i <= j

\* The path parameters of route i, all declared as UUID, that the path does
\* not satisfy.
BadPathParams(i, path) ==
    {k \in DOMAIN path :
        IsParam(RouteTable[i].path[k]) /\ UuidError(path[k]) # "ok"}

\* What becomes of a request with this method and path: the operation of the
\* route that handles it, and the 422 of a path parameter that is no UUID.
dispatch_route(method, path) ==
    LET i == Resolve(method, path) IN
    IF i = 0
    THEN [op |-> "none",
          resp |-> IF \E j \in DOMAIN RouteTable : PathMatches(RouteTable[j].path, path)
                   THEN JSONResponse(405, [detail |-> "Method Not Allowed"], "router")
                   ELSE JSONResponse(404, [detail |-> "Not Found"], "router")]
    ELSE [op |-> RouteTable[i].op,
          resp |-> IF BadPathParams(i, path) # {}
                   THEN validation_exception_handler(
                            PlainException("RequestValidationError",
                                           "Input should be a valid UUID"))
                   ELSE NoResp]

\* ------------------------------------------------- SpecFn: shaping functions

\* What the services and schemas compute from one input, apart from the
\* request pipeline: the output built from the collaborator's rows, the tags
\* of a request body, the arguments of the popular-tags query and the route
\* a path is dispatched to.

\* Sequences of at most n elements of S, the empty one included.
SeqsUpTo(S, n) == UNION {[1..k -> S] : k \in 0..n}

\* Rows of sp_get_activity_reviews: review_id null (0) is the placeholder
\* row; the others carry every combination of the flags and of the reviewer
\* columns.
ReviewRows ==
    {ReviewRow(0, FALSE, 0, FALSE)}
    \cup {ReviewRow(id, a, u, o) :
             id \in {1, 2}, a \in BOOLEAN, u \in {0, 7}, o \in BOOLEAN}

\* Rows of the procedures that return activities.
ActivityRow(id, current_participants_count, max_participants) ==
    [id |-> id, current_participants_count |-> current_participants_count,
     max_participants |-> max_participants]

ActivityRows ==
    {ActivityRow(0, 0, 2)}
    \cup {ActivityRow(id, n, 2) : id \in {1, 2}, n \in {1, 2, 3}}

\* Rows of the participant and waitlist procedures: user_id, null (0) for
\* the placeholder row.
UserRows == {[id |-> id] : id \in {0, 1, 2}}

SearchOps ==
    {"search_activities", "nearby_activities", "personalized_feed",
     "recommendations"}

ActivityRowOps == {"get_activity_by_id", "create_activity", "update_activity"}

ShapeCall(op, rows) == [fn |-> "shape", op |-> op, rows |-> rows]

\* The row lists a service shapes: the operations that raise or probe on an
\* empty result shape only non-empty ones.
ShapeCalls ==
    {ShapeCall("list_reviews", rows) :
        rows \in SeqsUpTo(ReviewRows, MaxList) \ {<<>>}}
    \cup {ShapeCall(op, rows) :
             op \in {"list_participants", "get_waitlist"},
             rows \in SeqsUpTo(UserRows, MaxList) \ {<<>>}}
    \cup {ShapeCall(op, rows) :
             op \in SearchOps, rows \in SeqsUpTo(ActivityRows, MaxList)}
    \cup {ShapeCall(op, rows) :
             op \in ActivityRowOps,
             rows \in SeqsUpTo(ActivityRows \ {ActivityRow(0, 0, 2)}, 1) \ {<<>>}}

\* n times the string s; n times the list element x.
RECURSIVE Repeat(_, _)
Repeat(s, n) == IF n = 0 THEN "" ELSE s \o Repeat(s, n - 1)

ListOf(x, n) == [i \in 1..n |-> x]

\* Tags of a request body: blank ones, padded ones, and ones at and beyond
\* the 100 characters kept.
TagSamples ==
    {"", "  ", "music", "  Hiking ", "a b",
     Repeat("a", TagMaxLen), Repeat("a", TagMaxLen + 1),
     Repeat("a", TagMaxLen - 1) \o " b",
     " " \o Repeat("a", TagMaxLen) \o " "}

\* Tag lists: the short ones, and lists at and beyond the limit of 20.
TagLists ==
    SeqsUpTo(TagSamples, MaxList)
    \cup {ListOf(tag, n) : tag \in {"music", "  "},
                           n \in {MaxTags - 1, MaxTags, MaxTags + 1, MaxTags + 2}}
    \cup {ListOf("music", MaxTags) \o <<"">>, <<"">> \o ListOf(" x ", MaxTags)}

TagsCalls ==
    {[fn |-> "tags", schema |-> schema, tags |-> tags] :
        schema \in {"ActivityCreate", "ActivityUpdate"},
        tags \in {NoTags} \cup {TagList(v) : v \in TagLists}}

LimitCalls ==
    {[fn |-> "popular_tags", limit |-> limit, prefix |-> prefix] :
        limit \in {1, 50, MaxTagLimit - 1, MaxTagLimit, MaxTagLimit + 1, 150},
        prefix \in {None, "hik"}}

SomeUuid == "123e4567-e89b-12d3-a456-426614174000"

RoutePaths ==
    {<<"activities", x>> :
        x \in {"search", "nearby", "feed", "recommendations", SomeUuid, "abc"}}
    \cup {<<"activities", x, y>> :
             x \in {SomeUuid, "tags"},
             y \in {"participants", "waitlist", "reviews", "cancel", "popular"}}
    \cup {<<"categories">>, <<"activities">>, <<"reviews", SomeUuid>>,
          <<"categories", "abc">>, <<"health">>}

RouteCalls ==
    {[fn |-> "route", method |-> method, path |-> path] :
        method \in {"GET", "POST", "PUT", "DELETE"}, path \in RoutePaths}

FnCalls == ShapeCalls \cup TagsCalls \cup LimitCalls \cup RouteCalls

InitFn ==
    /\ DEBUG \in BOOLEAN
    /\ MapIdle /\ PipeIdle /\ AuthIdle /\ ConcIdle
    /\ fPc = "input"
    /\ fCall \in FnCalls
    /\ fOut = NoValue

FnCallIs(fn) == fPc = "input" /\ fCall.fn = fn

FnDone(out) ==
    /\ fPc' = "done"
    /\ fOut' = out
    /\ UNCHANGED <<DEBUG, fCall, mapVars, pipeVars, authVars, concVars>>

\* A service builds its return value from the rows of the collaborator.
Shape ==
    /\ FnCallIs("shape")
    /\ FnDone(ServiceValue(fCall.op, fCall.rows))

\* The request body's tags field is validated; a violation is answered by
\* validation_exception_handler and the route function, and with it the
\* activity service, is not called.
ValidateTags ==
    /\ FnCallIs("tags")
    /\ LET r == TagsField(fCall.schema, fCall.tags) IN
       FnDone([field |-> r,
               resp |-> IF r.ok THEN NoResp
                        ELSE validation_exception_handler(
                                 PlainException("RequestValidationError", r.error)),
               service |-> [called |-> r.ok, tags |-> r.tags]])

\* get_popular_tags queries sp_get_popular_tags.
PopularTags ==
    /\ FnCallIs("popular_tags")
    /\ FnDone([args |-> get_popular_tags_args(fCall.limit, fCall.prefix)])

\* The router dispatches a request.
RouteRequest ==
    /\ FnCallIs("route")
    /\ FnDone(dispatch_route(fCall.method, fCall.path))

NextFn ==
    \/ Shape
    \/ ValidateTags
    \/ PopularTags
    \/ RouteRequest

SpecFn == InitFn /\ [][NextFn]_vars

\* ------------------------------------------------- claims on map_db_error

\* The (error_code, status_code) pair of an APIException.
KindOf(e) == <<e.error_code, e.status_code>>

\* The order the claim C4 states: a code word, and the kind it classifies to.
ClaimOrder ==
    << [pat |-> "NOT_FOUND",              kind |-> <<"NOT_FOUND", 404>>],
       [pat |-> "FORBIDDEN",              kind |-> <<"FORBIDDEN", 403>>],
       [pat |-> "BLOCKED",                kind |-> <<"FORBIDDEN", 403>>],
       [pat |-> "VALIDATION",             kind |-> <<"VALIDATION_ERROR", 422>>],
       [pat |-> "CONFLICT",               kind |-> <<"CONFLICT", 409>>],
       [pat |-> "UNAUTHORIZED",           kind |-> <<"UNAUTHORIZED", 401>>],
       [pat |-> "ERR_PREMIUM_REQUIRED",   kind |-> <<"FORBIDDEN", 403>>],
       [pat |-> "ERR_USER_NOT_FOUND",     kind |-> <<"NOT_FOUND", 404>>],
       [pat |-> "ERR_ACTIVITY_NOT_FOUND", kind |-> <<"NOT_FOUND", 404>>],
       [pat |-> "ERR_CATEGORY_NOT_FOUND", kind |-> <<"NOT_FOUND", 404>>] >>

\* The positions of ClaimOrder whose code word occurs in the text s.
Matches(s) == {i \in DOMAIN ClaimOrder : Contains(s, ClaimOrder[i].pat)}

FirstMatch(s) == CHOOSE i \in Matches(s) : \A j \in Matches(s) : i <= j

IsConstraintViolation(e) ==
    e.cls \in {"ForeignKeyViolationError", "UniqueViolationError"}

\* C3 (as claimed): map_db_error keeps the kind of an error that is already a
\* structured application error, and applying it to its own result keeps the
\* kind of that result.
C3_KindPreserving ==
    /\ (mPc # "input" /\ IsAPI(mErr)) => KindOf(mOut) = KindOf(mErr)
    /\ mPc = "remapped" => KindOf(mOut2) = KindOf(mOut)

\* C4: when the error text holds one or more of the known code words, the
\* result has the kind of the first of them in the order NOT_FOUND, FORBIDDEN,
\* BLOCKED, VALIDATION, CONFLICT, UNAUTHORIZED, ERR_PREMIUM_REQUIRED,
\* ERR_USER_NOT_FOUND, ERR_ACTIVITY_NOT_FOUND, ERR_CATEGORY_NOT_FOUND; a text
\* with ERR_BLOCKED and no earlier word gives 403 FORBIDDEN.
C4_FirstMatchDecides ==
    (mPc # "input" /\ Matches(str(mErr)) # {}) =>
        /\ KindOf(mOut) = ClaimOrder[FirstMatch(str(mErr))].kind
        /\ (Contains(str(mErr), "ERR_BLOCKED") /\ FirstMatch(str(mErr)) = 3)
               => KindOf(mOut) = <<"FORBIDDEN", 403>>

\* C4 witness: a collaborator text with ERR_BLOCKED and the later word
\* CONFLICT was classified as the blocked-user Forbidden.
C4_Witness ==
    /\ mPc = "mapped"
    /\ ~IsAPI(mErr)
    /\ Contains(mErr.text, "ERR_BLOCKED")
    /\ Contains(mErr.text, "CONFLICT")
    /\ KindOf(mOut) = <<"FORBIDDEN", 403>>
    /\ mOut.message = "User is blocked"

\* C5 (as claimed): whatever its message text, a foreign-key violation maps to
\* 404 'Referenced resource not found' and a uniqueness violation to 409
\* CONFLICT.
C5_ConstraintAnyText ==
    mPc # "input" =>
        /\ mErr.cls = "ForeignKeyViolationError" =>
               /\ KindOf(mOut) = <<"NOT_FOUND", 404>>
               /\ mOut.message = "Referenced resource not found"
        /\ mErr.cls = "UniqueViolationError" =>
               KindOf(mOut) = <<"CONFLICT", 409>>

\* C5 (amended): a foreign-key violation whose message text holds none of the
\* known code words maps to 404 'Referenced resource not found', and a
\* uniqueness violation whose text holds none of them maps to 409 CONFLICT.
C5_ConstraintNoCodeWord ==
    (mPc # "input" /\ Matches(str(mErr)) = {}) =>
        /\ mErr.cls = "ForeignKeyViolationError" =>
               /\ KindOf(mOut) = <<"NOT_FOUND", 404>>
               /\ mOut.message = "Referenced resource not found"
        /\ mErr.cls = "UniqueViolationError" =>
               KindOf(mOut) = <<"CONFLICT", 409>>

\* C5 witness: a foreign-key violation without any code word was mapped.
C5_Witness ==
    /\ mPc = "mapped"
    /\ mErr.cls = "ForeignKeyViolationError"
    /\ mErr.text = " violates constraint"
    /\ mOut.message = "Referenced resource not found"

\* C6: an error with no known code word and no constraint-violation type maps
\* to status 500 with the message 'An internal error occurred'; its details
\* hold the raw error text when DEBUG is on and are empty when it is off.
C6_InternalOpaqueUnlessDebug ==
    (mPc # "input" /\ Matches(str(mErr)) = {} /\ ~IsConstraintViolation(mErr)) =>
        /\ mOut.status_code = 500
        /\ mOut.message = "An internal error occurred"
        /\ DEBUG => mOut.details = {<<"error", str(mErr)>>}
        /\ ~DEBUG => mOut.details = {}

\* C6 witness: with DEBUG off, an unmatched error with a non-empty text was
\* mapped and its details are empty.
C6_Witness ==
    /\ mPc = "mapped"
    /\ ~DEBUG
    /\ mErr.cls = "PostgresError"
    /\ mErr.text = "connection refused"
    /\ mOut.status_code = 500
    /\ mOut.details = {}

\* The closed taxonomy of C8; the Internal kind of map_db_error is
\* DATABASE_ERROR.
Taxonomy == {<<"NOT_FOUND", 404>>, <<"FORBIDDEN", 403>>,
             <<"VALIDATION_ERROR", 422>>, <<"CONFLICT", 409>>,
             <<"UNAUTHORIZED", 401>>, <<"DATABASE_ERROR", 500>>}

\* C8: map_db_error returns, for every input, an APIException whose
\* (code, status) pair is one of the six pairs of the taxonomy, so that a code
\* never comes with two statuses.
C8_TotalInTaxonomy ==
    /\ mPc = "input" => ENABLED Classify
    /\ mPc # "input" => (IsAPI(mOut) /\ KindOf(mOut) \in Taxonomy)
    /\ mPc = "remapped" => (IsAPI(mOut2) /\ KindOf(mOut2) \in Taxonomy)
    /\ \A k1, k2 \in Taxonomy : k1[1] = k2[1] => k1[2] = k2[2]

\* C8 witness: a uniqueness violation without code words was mapped to
\* CONFLICT/409, and the result mapped again.
C8_Witness ==
    /\ mPc = "remapped"
    /\ mErr.cls = "UniqueViolationError"
    /\ KindOf(mOut) = <<"CONFLICT", 409>>
    /\ KindOf(mOut2) \in Taxonomy

\* --------------------------------------------------- claims on the pipeline

\* The request has passed its authentication dependency.
PastAuth == pc \notin {"off", "idle", "received", "deps"}

\* C1: on a route that depends on get_current_user, a request whose
\* Authorization header is absent, malformed, not validly signed or expired
\* gets no principal: UnauthorizedException (401, UNAUTHORIZED) is raised and
\* that is what the response carries.
C1_BadCredentialUnauthorized ==
    (PastAuth /\ AuthOf(req.op) \in {"user", "admin"} /\ req.authCase # "valid") =>
        /\ principal = NoPrincipal
        /\ exc.cls = "UnauthorizedException"
        /\ KindOf(exc) = <<"UNAUTHORIZED", 401>>
        /\ pc \in {"returning", "done"} =>
               /\ resp.status = 401
               /\ resp.body.error.code = "UNAUTHORIZED"

\* C1 witness: a request with an expired token on an authenticated route was
\* answered 401.
C1_Witness ==
    /\ pc = "done"
    /\ AuthOf(req.op) = "user"
    /\ req.authCase = "expired"
    /\ resp.status = 401
    /\ resp.by = "api_exception_handler"

\* The id-addressed operations of C2.
IdAddressed == {"get_activity_by_id", "update_activity", "cancel_activity",
                "delete_activity", "update_review", "delete_review",
                "update_category", "list_participants", "get_waitlist",
                "list_reviews"}

\* Every collaborator call of the operation returned zero rows.
ZeroRows ==
    /\ fetched # <<>>
    /\ \A i \in DOMAIN fetched : fetched[i].kind = "rows" /\ fetched[i].rows = <<>>

\* C2 (as claimed): when the collaborator returns zero rows to an id-addressed
\* operation (for list_reviews: to the existence probe as well), the error
\* that leaves the operation and the response are NotFound: 404, NOT_FOUND.
C2_ZeroRowsIsNotFound ==
    (pc = "done" /\ req.op \in IdAddressed /\ ZeroRows) =>
        /\ KindOf(svc.exc) = <<"NOT_FOUND", 404>>
        /\ resp.status = 404
        /\ resp.body.error.code = "NOT_FOUND"

\* The handlers setup_exception_handlers registers.
ExceptionHandlers == {"api_exception_handler", "validation_exception_handler",
                      "generic_exception_handler"}

\* C7 (as claimed): the body of every response an exception handler produces
\* is {error: {code, message, details}}, all three keys present.
C7_ErrorBodyHasThreeKeys ==
    resp.by \in ExceptionHandlers =>
        /\ DOMAIN resp.body = {"error"}
        /\ DOMAIN resp.body.error = {"code", "message", "details"}

\* C9: an exception raised inside a service operation, by the collaborator
\* call or by the empty-result check, goes through map_db_error once and the
\* APIException it returns is what the operation raises; the operation does
\* not return normally after a collaborator failure.
C9_MappedExactlyOnce ==
    /\ svc.state = "raised" =>
           /\ svc.mapCalls = 1
           /\ svc.raw # NoExc
           /\ IsAPI(svc.exc)
           /\ svc.exc = map_db_error(svc.raw)
           /\ exc = svc.exc
    /\ svc.state = "returned" =>
           /\ svc.mapCalls = 0
           /\ svc.raw = NoExc
           /\ \A i \in DOMAIN fetched : fetched[i].kind = "rows"
    /\ \A i \in DOMAIN fetched :
           fetched[i].kind = "error" =>
               /\ i = Len(fetched)
               /\ svc.state = "raised"
               /\ svc.raw = fetched[i].err

\* C9 witness: a collaborator call failed and the operation raised the mapped
\* error, which was rendered.
C9_Witness ==
    /\ pc = "done"
    /\ Len(fetched) = 1
    /\ fetched[1].kind = "error"
    /\ fetched[1].err.text = "ERR_BLOCKED"
    /\ svc.state = "raised"
    /\ svc.mapCalls = 1
    /\ resp.status = 403

\* The values of a response header.
HeaderValues(r, name) == {p[2] : p \in {q \in r.headers : q[1] = name}}

C11_HeaderOnEveryExitPath ==
    pc = "done" => HeaderValues(resp, "X-Correlation-ID") # {}

\* The events of the log that carry the correlation identifier id.
StampedWith(events, id) ==
    {i \in DOMAIN events : events[i].correlation_id = id}

\* C12: once dispatch has exited, by returning the response or by re-raising
\* the exception of the downstream stage, and after the request has ended,
\* no correlation identifier is bound in the logging context.
C12_ContextClearedOnExit ==
    pc \in {"done", "server_error", "idle"} =>
        /\ Bound(ctx) = None
        /\ \A p \in ctx : p[1] # "correlation_id"

\* C12 witness: the downstream stage raised an exception no inner handler
\* renders; dispatch logged it under the request's identifier, re-raised, and
\* the identifier is no longer bound.
C12_Witness ==
    /\ pc = "server_error"
    /\ outcome = "raised"
    /\ exc.cls = "TypeError"
    /\ correlation_id = "trace-A"
    /\ StampedWith(log, "trace-A") # {}
    /\ Bound(ctx) = None

\* The routes that require a credential.
Authenticated(op) == AuthOf(op) \in {"user", "admin"}

\* C14: while a service operation runs (and a collaborator call is pending)
\* the request's correlation identifier is bound and request_started was
\* logged before anything else; on an authenticated route whose credential
\* was rejected no service operation starts and no collaborator call is made.
C14_StagesInOrder ==
    /\ svc.state # "idle" =>
           /\ correlation_id # None
           /\ log # <<>>
           /\ log[1].event = "request_started"
           /\ log[1].correlation_id = correlation_id
    /\ pc \in {"collab", "probe"} => Bound(ctx) = correlation_id
    /\ (Authenticated(req.op) /\ req.authCase # "valid") =>
           /\ svc.state = "idle"
           /\ fetched = <<>>
    /\ (svc.state # "idle" /\ Authenticated(req.op)) => principal # NoPrincipal

\* C14 witness: a request with a forged token on an authenticated route ended
\* with 401 and the service operation never started, although the
\* correlation identifier had been bound and request_started logged.
C14_Witness ==
    /\ pc = "done"
    /\ req.op = "update_activity"
    /\ req.authCase = "invalid"
    /\ svc.state = "idle"
    /\ fetched = <<>>
    /\ log[1].event = "request_started"
    /\ log[1].correlation_id = correlation_id
    /\ resp.status = 401

\* The request's credential was accepted by the route's dependency, or the
\* route requires none.
CredentialAccepted ==
    ~Authenticated(req.op) \/ principal # NoPrincipal

\* What C15 says of a request that violates the schema: 422 VALIDATION_ERROR
\* with the violations in details.errors, no service operation started, no
\* collaborator call, no call of map_db_error.
ValidationAnswer ==
    /\ resp.status = 422
    /\ resp.body.error.code = "VALIDATION_ERROR"
    /\ \E p \in resp.body.error.details : p[1] = "errors" /\ p[2] # ""
    /\ svc.state = "idle"
    /\ svc.mapCalls = 0
    /\ fetched = <<>>

\* C15 (as claimed): every request whose payload or parameters violate the
\* schema is answered with 422 VALIDATION_ERROR without a service operation
\* or map_db_error being involved.
C15_InvalidRequestIs422 ==
    (pc = "done" /\ ~req.valid) => ValidationAnswer

\* C15 (amended): a request whose payload or parameters violate the schema,
\* on a route that requires no credential or with a credential the route's
\* dependency accepted, is answered with 422 VALIDATION_ERROR carrying the
\* violations, with no service operation started and map_db_error not
\* called; in no case does a service operation start for such a request.
C15_InvalidRequestAfterAuthIs422 ==
    /\ (pc = "done" /\ ~req.valid /\ CredentialAccepted) => ValidationAnswer
    /\ (PastAuth /\ pc # "validate" /\ ~req.valid) =>
           /\ svc.state = "idle"
           /\ svc.mapCalls = 0
           /\ fetched = <<>>

\* C15 witness: an authenticated request with invalid parameters was answered
\* 422 by the validation handler.
C15_Witness ==
    /\ pc = "done"
    /\ ~req.valid
    /\ req.op = "create_activity"
    /\ principal # NoPrincipal
    /\ resp.status = 422
    /\ resp.by = "validation_exception_handler"
    /\ svc.state = "idle"

\* The category operations reserved to administrators.
AdminOps == {"create_category", "update_category"}

\* C16: create_category and update_category run only for a principal that
\* authenticated and has the admin role; an authenticated principal without
\* it is rejected with 401 UNAUTHORIZED and the service does not start.
C16_AdminOnlyCategoryWrites ==
    /\ (req.op \in AdminOps /\ svc.state # "idle") =>
           /\ principal # NoPrincipal
           /\ is_admin(principal)
    /\ (req.op \in AdminOps /\ PastAuth
          /\ get_current_user(req.auth).exc = NoExc
          /\ ~is_admin(get_current_user(req.auth).user)) =>
           /\ KindOf(exc) = <<"UNAUTHORIZED", 401>>
           /\ exc.message = "Admin access required"
           /\ svc.state = "idle"
           /\ fetched = <<>>
           /\ pc = "done" => resp.status = 401

\* C16 witness: a valid token without the admin role was answered 401 on
\* update_category, the service not started.
C16_Witness ==
    /\ pc = "done"
    /\ req.op = "update_category"
    /\ req.auth = Header("Bearer tok.user")
    /\ resp.status = 401
    /\ resp.body.error.message = "Admin access required"
    /\ svc.state = "idle"

\* The service operation has ended, by returning or by raising.
SvcEnded == svc.state \in {"returned", "raised"}

\* C19 (as claimed): every service operation makes exactly one collaborator
\* call per invocation, on every path.
C19_OneCallPerInvocation ==
    SvcEnded => Len(fetched) = 1

\* C19 (amended): every service operation makes exactly one collaborator
\* call per invocation, except list_reviews, which makes a second one (the
\* existence probe) when and only when the first returned zero rows; no call
\* follows a call that failed.
C19_OneCallExceptReviewProbe ==
    /\ SvcEnded =>
           Len(fetched) = IF req.op = "list_reviews" /\ fetched[1] = GotRows(<<>>)
                          THEN 2 ELSE 1
    /\ Len(fetched) <= 2
    /\ \A i \in DOMAIN fetched : fetched[i].kind = "error" => i = Len(fetched)

\* C19 witness: list_reviews got zero rows, probed, the probe failed, and the
\* operation raised without a third call.
C19_Witness ==
    /\ pc = "done"
    /\ req.op = "list_reviews"
    /\ Len(fetched) = 2
    /\ fetched[1] = GotRows(<<>>)
    /\ fetched[2].kind = "error"
    /\ svc.state = "raised"


\* ------------------------------------------------ claims on authentication

\* The subscription tiers.
Tiers == {"free", "premium", "club"}

\* C17 (as claimed): the principal any dependency returns for a validly
\* signed, unexpired token, whatever its claims, has at least one role and a
\* tier that is free, premium or club.
C17_PrincipalRolesAndTier ==
    (aPc = "solved" /\ aOut.user # NoPrincipal) =>
        /\ aOut.user.roles # <<>>
        /\ aOut.user.subscription_level \in Tiers

\* The token of a header with the bearer scheme.
TokenOf(h) == split(h.value)[2]

\* C18: get_optional_user raises nothing; it returns None for a header that
\* is absent, malformed, not validly signed or expired, and the principal of
\* the token's claims exactly when the header is well-formed and the token
\* validates.
C18_OptionalUserNeverFails ==
    (aPc = "solved" /\ aDep = "optional") =>
        /\ aOut.exc = NoExc
        /\ aIn.case # "valid" => aOut.user = NoPrincipal
        /\ aIn.case = "valid" =>
               aOut.user = TokenPayload(JwtTable[TokenOf(aIn.header)].claims)

\* C18 witness: get_optional_user returned None for an expired token, having
\* logged the failed decode.
C18_Witness ==
    /\ aPc = "solved"
    /\ aDep = "optional"
    /\ aIn.header = Header("Bearer tok.expired")
    /\ aOut.exc = NoExc
    /\ aOut.user = NoPrincipal
    /\ Len(aOut.logs) = 1


\* ------------------------------------------------ claims on concurrent runs

\* The task is between the binding of its identifier and the finally clause
\* of dispatch.
InFlight(t) == task[t].pc \in {"downstream", "acquiring", "calling", "exiting"}

\* C13: under every interleaving of the requests of one worker, a request in
\* flight observes its own correlation identifier in the logging context,
\* whatever the other requests bind or clear meanwhile; each of its log
\* events carries its own identifier (the one event logged after dispatch
\* has cleared it carries none), and so does its response header.
C13_CorrelationIsolated ==
    \A t \in DOMAIN task :
        /\ InFlight(t) => Bound(contexts[ContextOf(t)]) = task[t].correlation_id
        /\ \A i \in DOMAIN task[t].log :
               task[t].log[i].correlation_id =
                   IF task[t].log[i].event = "unhandled_exception"
                   THEN None ELSE task[t].correlation_id
        /\ HeaderValues(task[t].resp, "X-Correlation-ID")
               \subseteq {task[t].correlation_id}
        /\ task[t].pc = "done" => Bound(contexts[ContextOf(t)]) = None

\* C13 witness: while request 1 waited for its collaborator call, request 2
\* was bound to another identifier, served and cleared; request 1 still
\* observes its own.
C13_Witness ==
    /\ task[1].pc = "calling"
    /\ task[1].correlation_id = "uuid4-0"
    /\ task[2].pc = "done"
    /\ task[2].correlation_id = "trace-A"
    /\ HeaderValues(task[2].resp, "X-Correlation-ID") = {"trace-A"}
    /\ Len(task[2].log) >= 2
    /\ Bound(contexts[ContextOf(1)]) = "uuid4-0"

C21_ZeroReviewsIsNotMissing ==
    req.op = "list_reviews" =>
        /\ pc = "probe" => fetched = <<GotRows(<<>>)>>
        /\ Len(fetched) >= 2 => fetched[1] = GotRows(<<>>)
        /\ (SvcEnded /\ fetched[1].kind = "rows" /\ fetched[1].rows # <<>>) =>
               Len(fetched) = 1
        /\ (SvcEnded /\ Len(fetched) = 2 /\ fetched[2].kind = "rows"
              /\ fetched[2].rows # <<>>) =>
               /\ svc.state = "returned"
               /\ svc.value = [total_reviews |-> 0, items |-> <<>>]
               /\ resp.status = 200

\* C21 witness: the primary call returned no rows, the probe found the
\* activity, and the request was answered 200 with a zero-count result.
C21_Witness ==
    /\ pc = "done"
    /\ req.op = "list_reviews"
    /\ fetched = <<GotRows(<<>>), GotRows(<<Row(1)>>)>>
    /\ resp.status = 200
    /\ resp.body.data.total_reviews = 0
    /\ resp.body.data.items = <<>>

\* C29 (as claimed): on an authenticated route a request with a validly
\* signed, unexpired token is never answered with the unclassified 500
\* INTERNAL_ERROR of the generic handler; it ends in 401 or past the
\* conversion of the principal's subject.
C29_ValidTokenNeverInternalError ==
    (pc = "done" /\ Authenticated(req.op) /\ req.authCase = "valid") =>
        /\ resp.by # "generic_exception_handler"
        /\ resp.body # [error |-> [code |-> "INTERNAL_ERROR",
                                   message |-> "An internal error occurred"]]
        /\ exc.cls \notin {"TypeError", "ValueError"}


\* ------------------------------------------- further claims on map_db_error

\* The client-fault kinds of the taxonomy.
ClientKinds == Taxonomy \ {<<"DATABASE_ERROR", 500>>}

\* C30 (as claimed): with DEBUG off, the response to a collaborator error
\* depends on its kind only: a collaborator error of the same class with any
\* other text that is classified to the same client-fault kind is rendered
\* with the same message and the same details.
C30_ResponseIndependentOfText ==
    (mPc # "input" /\ ~DEBUG /\ ~IsAPI(mErr) /\ KindOf(mOut) \in ClientKinds) =>
        \A t \in TextsUpTo(1) :
            LET other == map_db_error(PlainException(mErr.cls, t)) IN
            KindOf(other) = KindOf(mOut) =>
                /\ api_exception_handler(other).body.error.message
                     = api_exception_handler(mOut).body.error.message
                /\ api_exception_handler(other).body.error.details
                     = api_exception_handler(mOut).body.error.details

\* C22: in the output of list_reviews every review whose anonymity flag is
\* set has no reviewer, whatever reviewer columns the row carries and whether
\* or not the review is the requester's own, and is_own_review is reported
\* as the collaborator supplied it.
C22_AnonymousReviewerWithheld ==
    (fPc = "done" /\ fCall.fn = "shape" /\ fCall.op = "list_reviews") =>
        LET kept == SelectSeq(fCall.rows, LAMBDA r : r.id # 0) IN
        /\ Len(fOut.items) = Len(kept)
        /\ \A i \in DOMAIN kept :
               /\ kept[i].is_anonymous => "user_id" \notin DOMAIN fOut.items[i].reviewer
               /\ fOut.items[i].is_own_review = kept[i].is_own_review

\* An anonymous review that carries its reviewer's id and is the requester's
\* own was listed, beside one that is not the requester's own.
C22_Witness ==
    /\ fPc = "done" /\ fCall.fn = "shape" /\ fCall.op = "list_reviews"
    /\ Len(fCall.rows) = 2
    /\ \A i \in 1..2 :
           /\ fCall.rows[i].is_anonymous
           /\ fCall.rows[i].reviewer_user_id # 0
           /\ fCall.rows[i].id # 0
    /\ fCall.rows[1].is_own_review /\ ~fCall.rows[2].is_own_review
    /\ Len(fOut.items) = 2
    /\ "none" \in DOMAIN fOut.items[1].reviewer
    /\ fOut.items[1].is_own_review /\ ~fOut.items[2].is_own_review

IdsOf(items) == [i \in DOMAIN items |-> items[i].id]

\* C23: the collections built by list_participants, get_waitlist,
\* list_reviews and the four search operations hold no entry for a row whose
\* identity column is null, and hold the rows with an identity, all of them,
\* in the collaborator's order.
C23_NullIdentityRowsDropped ==
    (fPc = "done" /\ fCall.fn = "shape" /\ FiltersNullRows(fCall.op)) =>
        /\ \A i \in DOMAIN fOut.items : fOut.items[i].id # 0
        /\ IdsOf(fOut.items) = IdsOf(SelectSeq(fCall.rows, LAMBDA r : r.id # 0))

\* A placeholder row came before a row with an identity and only the latter
\* is in the collection.
C23_Witness ==
    /\ fPc = "done" /\ fCall.fn = "shape" /\ fCall.op = "list_participants"
    /\ Len(fCall.rows) = 2
    /\ fCall.rows[1].id = 0 /\ fCall.rows[2].id = 2
    /\ IdsOf(fOut.items) = <<2>>

NonBlank(tag) == \E i \in 1..Len(tag) : ~IsSpace(SubSeq(tag, i, i))

Trimmed(tag) ==
    /\ tag # ""
    /\ ~IsSpace(SubSeq(tag, 1, 1))
    /\ ~IsSpace(SubSeq(tag, Len(tag), Len(tag)))

\* C24: for every accepted tag list of an activity create or update the
\* resulting list holds, in input order, exactly the non-blank inputs, each
\* without leading and trailing whitespace and at most 100 characters long:
\* no resulting tag is empty or begins or ends with whitespace.
C24_TagsNormalized ==
    (fPc = "done" /\ fCall.fn = "tags" /\ fCall.tags.present /\ fOut.field.ok) =>
        LET nonblank == SelectSeq(fCall.tags.list, NonBlank)
            out == fOut.service.tags.list
        IN  /\ Len(out) = Len(nonblank)
            /\ \A i \in DOMAIN out :
                   /\ Contains(nonblank[i], out[i])
                   /\ Len(out[i]) <= TagMaxLen
                   /\ Trimmed(out[i])

C26_LimitClamped ==
    (fPc = "done" /\ fCall.fn = "popular_tags") =>
        /\ fOut.args.limit <= 100
        /\ fCall.limit <= 100 => fOut.args.limit = fCall.limit
        /\ fCall.limit > 100 => fOut.args.limit = 100
        /\ fOut.args.prefix = fCall.prefix

\* A limit of 150 was requested with a prefix and 100 was passed.
C26_Witness ==
    /\ fPc = "done" /\ fCall.fn = "popular_tags"
    /\ fCall.limit = 150 /\ fCall.prefix = "hik"
    /\ fOut.args = [limit |-> 100, prefix |-> "hik"]

\* The activity representations of a returned value.
Representations(op, out) ==
    IF op \in SearchOps THEN {out.items[i] : i \in DOMAIN out.items}
    ELSE {out.row}

\* C27: in every activity representation the service layer returns (get,
\* create, update, and the summaries of search, nearby, feed and
\* recommendations) current_participants_count is at most max_participants,
\* whatever rows the collaborator returns.
C27_CountWithinCapacity ==
    (fPc = "done" /\ fCall.fn = "shape" /\ fCall.op \in SearchOps \cup ActivityRowOps) =>
        \A a \in Representations(fCall.op, fOut) :
            a.current_participants_count <= a.max_participants

\* C28: a GET of /activities/search, /activities/nearby, /activities/feed or
\* /activities/recommendations is handled by the search operation of that
\* name and is not answered by the route /activities/{activity_id} with a
\* validation error.
C28_SearchRoutesReached ==
    \A r \in {<<"search", "search_activities">>, <<"nearby", "nearby_activities">>,
              <<"feed", "personalized_feed">>,
              <<"recommendations", "recommendations">>} :
        (/\ fPc = "done" /\ fCall.fn = "route"
         /\ fCall.method = "GET" /\ fCall.path = <<"activities", r[1]>>) =>
            /\ fOut.op = r[2]
            /\ fOut.resp = NoResp

====
